---- MODULE Spec2Model ----
(***************************************************************************)
(* A model of the knut journal processing core: the running balance        *)
(* (Book, BookAmount, NewPosting), the per-day booking steps, the          *)
(* streaming select loop of the balance command, the staged day pipeline   *)
(* and accrual expansion.                                                  *)
(*                                                                         *)
(* Decimal amounts are exact, so they are integers here (for the accrual   *)
(* part: integers in units of 10^-AmountScale).  A Go map is a function    *)
(* whose DOMAIN is the set of keys present; reading a missing key gives    *)
(* the zero value.                                                         *)
(***************************************************************************)
EXTENDS Integers, Sequences, FiniteSets, TLC

\* ------------------------------------------------------------------ bounds
\* largest amount of one posting
MaxAmount == 1
\* cap on the absolute value of a position, to keep the state space finite
MaxBalance == 2
\* largest number of postings of one transaction
MaxPostings == 2
\* largest number of days of a journal
MaxDays == 2
\* largest number of balances the period filter sends to the select loop
MaxSent == 2
\* largest date of a journal day in the staged pipeline
MaxDate == 3
\* capacity of the queue between two stages
ChanCap == 1
\* largest amount of an accrual's template posting, in hundredths
MaxAccrualAmount == 35
\* largest date (day number, day 0 a Monday) of an accrual's t0 and t1
MaxAccrualDate == 7
\* largest normalized price of a commodity in the valuation commodity
MaxPrice == 2
\* largest number of days given to the valuator
MaxValDays == 2
\* largest number of balances given to Diffs
MaxBals == 3
\* largest length of an account name compared by Less, in characters
MaxNameLen == 2
\* largest number of directives added to a journal
MaxAdds == 3
\* latest date of a journal directive
MaxJrnDate == 2
\* largest number of lookups in one context
MaxLookups == 3
\* largest value of the flag --last
MaxLast == 2
\* largest number of --collapse flags
MaxRules == 2
\* largest number of operations on a balance and its snapshot
MaxSnpOps == 3
\* largest number of postings of the transaction given to BookAmount
MaxBkPostings == 3

\* ------------------------------------------------------------- the universe
AccountNames == {"Assets:Bank", "Income:Salary"}
Commodities == {"USD", "CHF"}
\* source ranges of directives (ledger.Range), which identify a directive
Ranges == {"j:1", "j:2"}
None == "none"

Abs(x) == IF x < 0 THEN -x ELSE x

\* ------------------------------------------------------------ Go map helpers
EmptyMap == [k \in {} |-> 0]
Get(m, k) == IF k \in DOMAIN m THEN m[k] ELSE 0
Put(m, k, v) == [x \in (DOMAIN m) \cup {k} |-> IF x = k THEN v ELSE m[x]]

\* --------------------------------------------------------------- lib/balance
CommodityAccount(a, c) == [Account |-> a, Commodity |-> c]

Positions == {CommodityAccount(a, c) : a \in AccountNames, c \in Commodities}

\* mutant: the debit side is booked under the credit position's sign
Book_DebitSub(amts, cr, dr, a, c) ==
    LET crPos == CommodityAccount(cr, c)
        drPos == CommodityAccount(dr, c)
        m1 == Put(amts, crPos, Get(amts, crPos) - a)
    IN  Put(m1, drPos, Get(m1, drPos) - a)

\* Balance.Book: Amounts[crPos] -= a, then Amounts[drPos] += a
Book(amts, cr, dr, a, c) ==
    LET crPos == CommodityAccount(cr, c)
        drPos == CommodityAccount(dr, c)
        m1 == Put(amts, crPos, Get(amts, crPos) - a)
    IN  Put(m1, drPos, Get(m1, drPos) + a)

\* Accounts.IsOpen
IsOpen(accts, a) == a \in accts

\* a nil error
NoErr == [directive |-> None, msg |-> <<>>]

\* Error{directive, msg}
Error(t, side, a) == [directive |-> t.Range, msg |-> <<side, a, "is not open">>]

RECURSIVE BookAmountFrom_NoDebitCheck(_, _, _, _)
\* mutant: the debit account is not checked
BookAmountFrom_NoDebitCheck(amts, accts, t, i) ==
    IF i > Len(t.Postings) THEN [Amounts |-> amts, err |-> NoErr]
    ELSE LET posting == t.Postings[i] IN
         IF ~IsOpen(accts, posting.Credit)
         THEN [Amounts |-> amts, err |-> Error(t, "credit account", posting.Credit)]
         ELSE BookAmountFrom_NoDebitCheck(
                  Book(amts, posting.Credit, posting.Debit, posting.Amount, posting.Commodity),
                  accts, t, i + 1)

RECURSIVE BookAmountFrom(_, _, _, _)
\* the loop of Balance.BookAmount from posting i on
BookAmountFrom(amts, accts, t, i) ==
    IF i > Len(t.Postings) THEN [Amounts |-> amts, err |-> NoErr]
    ELSE LET posting == t.Postings[i] IN
         IF ~IsOpen(accts, posting.Credit)
         THEN [Amounts |-> amts, err |-> Error(t, "credit account", posting.Credit)]
         ELSE IF ~IsOpen(accts, posting.Debit)
         THEN [Amounts |-> amts, err |-> Error(t, "debit account", posting.Debit)]
         ELSE BookAmountFrom(
                  Book(amts, posting.Credit, posting.Debit, posting.Amount, posting.Commodity),
                  accts, t, i + 1)

\* mutant: a failed call leaves the amounts as they were
BookAmount_Rollback(amts, accts, t) ==
    IF BookAmountFrom(amts, accts, t, 1).err # NoErr
    THEN [Amounts |-> amts, err |-> BookAmountFrom(amts, accts, t, 1).err]
    ELSE BookAmountFrom(amts, accts, t, 1)

\* Balance.BookAmount
BookAmount(amts, accts, t) == BookAmountFrom(amts, accts, t, 1)

\* ---------------------------------------------------------------- lib/ledger
\* mutant: a negative amount is negated without swapping the accounts
NewPosting_NoSwap(crAccount, drAccount, commodity, amt) ==
    [Credit |-> crAccount, Debit |-> drAccount, Amount |-> Abs(amt), Commodity |-> commodity]

\* ledger.NewPosting
NewPosting(crAccount, drAccount, commodity, amt) ==
    IF amt < 0
    THEN [Credit |-> drAccount, Debit |-> crAccount, Amount |-> -amt, Commodity |-> commodity]
    ELSE [Credit |-> crAccount, Debit |-> drAccount, Amount |-> amt, Commodity |-> commodity]

\* the postings of the transactions booked here: built by NewPosting, between
\* two different accounts
Postings ==
    {p \in {NewPosting(cr, dr, c, a) : cr \in AccountNames, dr \in AccountNames,
                                       c \in Commodities, a \in 1..MaxAmount} :
        p.Credit # p.Debit}

SeqsUpTo(S, n) == UNION {[1..k -> S] : k \in 1..n}

\* ledger.Transaction (Range and Postings); the second directive of the
\* journal is a transaction of one posting
Transactions ==
    {t \in [Range : Ranges, Postings : SeqsUpTo(Postings, MaxPostings)] :
        t.Range = "j:1" \/ Len(t.Postings) = 1}

\* ------------------------------------------------- the booking steps of a day
\* The booking state of a day is b = [Amounts, Accounts, err]; every step
\* leaves it alone once err is set.
Failed(b) == b.err # NoErr

RECURSIVE processOpenings(_, _, _)
\* opens: an account that is already open fails with accountAlreadyOpen
processOpenings(b, d, i) ==
    IF Failed(b) \/ i > Len(d.Openings) THEN b
    ELSE LET a == d.Openings[i] IN
         IF IsOpen(b.Accounts, a)
         THEN [b EXCEPT !.err = [directive |-> "open", msg |-> <<"account", a, "is already open">>]]
         ELSE processOpenings([b EXCEPT !.Accounts = @ \cup {a}], d, i + 1)

RECURSIVE processTransactions(_, _, _)
\* transactions: BookAmount of each transaction, stopping at the first error
processTransactions(b, d, i) ==
    IF Failed(b) \/ i > Len(d.Transactions) THEN b
    ELSE LET r == BookAmount(b.Amounts, b.Accounts, d.Transactions[i]) IN
         processTransactions([b EXCEPT !.Amounts = r.Amounts, !.err = r.err], d, i + 1)

RECURSIVE processAssertions(_, _, _)
\* assertions: the position must equal the expected amount
processAssertions(b, d, i) ==
    IF Failed(b) \/ i > Len(d.Assertions) THEN b
    ELSE LET a == d.Assertions[i] IN
         IF Get(b.Amounts, CommodityAccount(a.Account, a.Commodity)) # a.Amount
         THEN [b EXCEPT !.err = [directive |-> "balance",
                                 msg |-> <<"account", a.Account, "assertion failed">>]]
         ELSE processAssertions(b, d, i + 1)

RECURSIVE processClosings(_, _, _)
\* closes: no non-zero position may remain; the account leaves the open set
processClosings(b, d, i) ==
    IF Failed(b) \/ i > Len(d.Closings) THEN b
    ELSE LET a == d.Closings[i] IN
         IF \E k \in DOMAIN b.Amounts : k.Account = a /\ b.Amounts[k] # 0
         THEN [b EXCEPT !.err = [directive |-> "close",
                                 msg |-> <<"account", a, "has a residual balance">>]]
         ELSE IF ~IsOpen(b.Accounts, a)
         THEN [b EXCEPT !.err = [directive |-> "close", msg |-> <<"account", a, "is not open">>]]
         ELSE processClosings([b EXCEPT !.Accounts = @ \ {a}], d, i + 1)

\* the four booking steps of one day in their fixed order
ProcessDay(b, d) ==
    processClosings(processAssertions(processTransactions(processOpenings(b, d, 1), d, 1), d, 1), d, 1)

\* a price directive, which the booking steps never touch
price1 == [Commodity |-> "CHF", Target |-> "USD", Price |-> 2]

\* the transactions of a day: one posting, or the same amount of both
\* commodities between the same two accounts
DayTransactions ==
    {t \in Transactions :
        /\ t.Range = "j:1"
        /\ \/ Len(t.Postings) = 1
           \/ /\ Len(t.Postings) = 2
              /\ t.Postings[2] = [t.Postings[1] EXCEPT !.Commodity = "CHF"]
              /\ t.Postings[1].Commodity = "USD"}

\* the day records of date n handed to the Balancer (Amounts not yet set)
BalancerDays(n) ==
    [Date : {n},
     Openings : {<<>>, <<"Assets:Bank">>, <<"Income:Salary">>, <<"Assets:Bank", "Income:Salary">>},
     Prices : {<<price1>>},
     Transactions : {<<>>} \cup {<<t>> : t \in DayTransactions},
     Assertions : {<<>>},
     Closings : {<<>>, <<"Income:Salary">>},
     Amounts : {None}]

Directives(d) == <<d.Date, d.Openings, d.Prices, d.Transactions, d.Assertions, d.Closings>>

\* the day records of date n handed to Ledger.Process
LedgerDays(n) ==
    [Date : {n},
     Openings : {<<>>, <<"Assets:Bank">>, <<"Income:Salary">>, <<"Assets:Bank", "Income:Salary">>},
     Prices : {<<>>},
     Transactions : {<<>>} \cup {<<t>> : t \in DayTransactions},
     Assertions : {<<>>} \cup {<<[Account |-> "Assets:Bank", Commodity |-> "USD", Amount |-> e]>> :
                                   e \in 0..MaxAmount},
     Closings : {<<>>, <<"Income:Salary">>},
     Amounts : {None}]

NoDay == [Date |-> 0, Openings |-> <<>>, Prices |-> <<>>, Transactions |-> <<>>,
          Assertions |-> <<>>, Closings |-> <<>>, Amounts |-> None]

\* mutant: the assertions are checked before the transactions are booked
steps_AsserterFirst ==
    <<"DateUpdater", "AccountOpener", "Asserter", "TransactionBooker", "ValueBooker",
      "PriceUpdater", "TransactionValuator", "ValuationTransactionComputer",
      "AccountCloser", "Snapshotter">>

\* runner.configurePipeline: the processing steps, in the order Ledger.Process
\* applies them to a day
steps ==
    <<"DateUpdater", "AccountOpener", "TransactionBooker", "ValueBooker", "Asserter",
      "PriceUpdater", "TransactionValuator", "ValuationTransactionComputer",
      "AccountCloser", "Snapshotter">>

\* configurePipeline of the earlier balance command: the Snapshotter comes second
stepsSnapshotterSecond ==
    <<"DateUpdater", "Snapshotter", "AccountOpener", "TransactionBooker", "ValueBooker",
      "Asserter", "PriceUpdater", "TransactionValuator", "ValuationTransactionComputer",
      "AccountCloser">>

\* mutant: the day is handed the Balancer's own map
Clone_Alias(h, r) == [ref |-> r, heap |-> h]

\* amounts.Clone: a fresh map object with the entries of h[r]
Clone(h, r) ==
    LET new == Cardinality(DOMAIN h) IN
    [ref |-> new, heap |-> [x \in (DOMAIN h) \cup {new} |-> IF x = new THEN h[r] ELSE h[x]]]

\* ------------------------------------------------------------------- state
VARIABLES
    Amounts,    \* Balance.Amounts
    Accounts,   \* Balance.Accounts: the set of open accounts
    ret,        \* the last operation on the balance and what it returned
    ref,        \* history: what the last operation was expected to do
    balancer,   \* process.Balancer: the open accounts and the error it returned
    heap,       \* the amounts maps of the Balancer run; heap[0] is the Balancer's own
    days,       \* history: the day records handed to the Balancer
    out,        \* the day records the Balancer passed on
    stepList,   \* pipeline.ProcessingSteps
    day,        \* Ledger.Process: the day being processed
    stepIdx,    \* Ledger.Process: the index of the next step of the day (0: no day yet)
    bal,        \* the balance the steps share: Date, Amounts, Accounts and the error
    result,     \* Snapshotter.Result: the last snapshot taken
    dayStart    \* history: the balance when the day began, the steps done since, and
                \* the accounts closed and not opened again

VARIABLES
    chans,      \* errCh1, errCh3 and ch4: closed or not, and the value a sender offers
    live,       \* runner.execute: the channel variables that are not nil
    pc,         \* runner.execute: "select", "returned" or "rendered"
    retErr,     \* runner.execute: the error returned
    cancelled,  \* the pipeline context: cancel() has been called
    rep,        \* report.Report: the balances added, in order
    raised,     \* history: the errors the stages raised, in order
    received,   \* history: the errors the select loop received, in order
    sent        \* history: the balances the period filter offered on ch4, in order

VARIABLES
    journal,    \* Journal.Days: the dates that have a day
    src,        \* the days the source still has to emit, in emission order
    queues,     \* the queue after each stage
    holding,    \* the day a stage is processing
    seen,       \* history: per stage, the days it started to process, in order
    done        \* history: per stage, the days it completed, in order

VARIABLES
    accrual,    \* the accrual given to Expand
    expanded,   \* the transactions Expand returned
    apc         \* "input" before Expand, "expanded" after it

VARIABLES
    val,        \* the valuator: running amounts and values, prices, the day
    dif,        \* Diffs: the balances given and the balances returned
    ord,        \* CommodityAccount.Less: the position keys compared
    jrn,        \* journal2.Journal: Days, min and max, and the directives added
    ctx,        \* ledger.Context: the interned accounts and commodities
    emp         \* the balance command on a journal without directives

VARIABLES
    sho,        \* parseCollapse and shorten: the flags, the rules, the segments
    seg,        \* NewReport: the balances, the segments and the totals
    snp,        \* Balance.Snapshot: the receiver, its snapshot and the objects they hold
    bk,         \* Balance.BookAmount: the amounts before and after one call
    register,   \* Register: the sections added
    fp          \* journal2.FromPath: the workers, the error and the journal handed over

balVars == <<Amounts, Accounts, ret, ref>>
balancerVars == <<balancer, heap, days, out>>
stepVars == <<stepList, day, stepIdx, bal, result, dayStart>>
execVars == <<chans, live, pc, retErr, cancelled, rep, raised, received, sent>>

pipeVars == <<journal, src, queues, holding, seen, done>>
accrVars == <<accrual, expanded, apc>>

lateVars == <<sho, seg, snp, bk, register, fp>>

midVars == <<val, dif, ord, jrn, ctx, emp>>

moreVars == <<midVars, lateVars>>

vars == <<balVars, balancerVars, stepVars, execVars, pipeVars, accrVars, moreVars>>

ValIdle == val = [pc |-> "idle"]
DifIdle == dif = [pc |-> "idle"]
OrdIdle == ord = [pc |-> "idle"]
JrnIdle == jrn = [pc |-> "idle"]
CtxIdle == ctx = [pc |-> "idle"]
EmpIdle == emp = [pc |-> "idle"]

ShoIdle == sho = [pc |-> "idle"]
SegIdle == seg = [pc |-> "idle"]
SnpIdle == snp = [pc |-> "idle"]
BkIdle == bk = [pc |-> "idle"]
RegIdle == register = [pc |-> "idle"]
FpIdle == fp = [pc |-> "idle"]

LateIdle == ShoIdle /\ SegIdle /\ SnpIdle /\ BkIdle /\ RegIdle /\ FpIdle

MidIdle == ValIdle /\ DifIdle /\ OrdIdle /\ JrnIdle /\ CtxIdle /\ EmpIdle

MoreIdle == MidIdle /\ LateIdle

PipeIdle ==
    /\ journal = {}
    /\ src = <<>>
    /\ queues = <<>>
    /\ holding = <<>>
    /\ seen = <<>>
    /\ done = <<>>

AccrIdle ==
    /\ accrual = <<>>
    /\ expanded = <<>>
    /\ apc = "idle"

\* the channels of runner.execute
ErrChans == {"errCh1", "errCh3"}
Chans == ErrChans \cup {"ch4"}

ExecIdle ==
    /\ chans = <<>>
    /\ live = {}
    /\ pc = "idle"
    /\ retErr = None
    /\ cancelled = FALSE
    /\ rep = <<>>
    /\ raised = <<>>
    /\ received = <<>>
    /\ sent = <<>>

StepsIdle ==
    /\ stepList = <<>>
    /\ day = NoDay
    /\ stepIdx = 0
    /\ bal = [Date |-> 0, Amounts |-> EmptyMap, Accounts |-> {}, err |-> NoErr]
    /\ result = [Date |-> 0, Amounts |-> EmptyMap]
    /\ dayStart = [Amounts |-> EmptyMap, Accounts |-> {}, done |-> {}, closed |-> {}]

\* the parts of the state that are not in use in a specification
BalancerIdle ==
    /\ balancer = [accounts |-> {}, err |-> NoErr]
    /\ heap = <<>>
    /\ days = <<>>
    /\ out = <<>>

InBounds(amts) == \A k \in DOMAIN amts : Abs(amts[k]) <= MaxBalance

NoRet == [op |-> "New", directive |-> None, err |-> NoErr, posting |-> None]
NoRef == [Amounts |-> EmptyMap, notOpen |-> FALSE, raw |-> None]

BalIdle ==
    /\ Amounts = EmptyMap
    /\ Accounts = {}
    /\ ret = [op |-> "New", directive |-> None, err |-> NoErr, posting |-> None]
    /\ ref = [Amounts |-> EmptyMap, notOpen |-> FALSE, raw |-> None]

\* balance.New
BalInit ==
    /\ Amounts = EmptyMap
    /\ Accounts = {}
    /\ ret = NoRet
    /\ ref = NoRef

\* ------------------------------------------------- reference (history) values
RECURSIVE BookAll(_, _, _)
\* the postings 1..n of t booked one after the other
BookAll(amts, ps, n) ==
    IF n = 0 THEN amts
    ELSE LET p == ps[n] IN Book(BookAll(amts, ps, n - 1), p.Credit, p.Debit, p.Amount, p.Commodity)

BothOpen(accts, p) == p.Credit \in accts /\ p.Debit \in accts

\* the number of leading postings of t whose two accounts are open
OpenPrefix(accts, ps) ==
    IF \A i \in 1..Len(ps) : BothOpen(accts, ps[i]) THEN Len(ps)
    ELSE (CHOOSE i \in 1..Len(ps) :
            /\ ~BothOpen(accts, ps[i])
            /\ \A j \in 1..(i - 1) : BothOpen(accts, ps[j])) - 1

\* ----------------------------------------------------------------- actions
\* Accounts.Open on the balance (AccountOpener)
OpenAccount(a) ==
    /\ a \notin Accounts
    /\ Accounts' = Accounts \cup {a}
    /\ ret' = [NoRet EXCEPT !.op = "Open"]
    /\ ref' = [NoRef EXCEPT !.Amounts = Amounts]
    /\ UNCHANGED <<Amounts, balancerVars, stepVars, execVars, pipeVars, accrVars, moreVars>>

\* Accounts.Close on the balance (AccountCloser)
CloseAccount(a) ==
    /\ a \in Accounts
    /\ Accounts' = Accounts \ {a}
    /\ ret' = [NoRet EXCEPT !.op = "Close"]
    /\ ref' = [NoRef EXCEPT !.Amounts = Amounts]
    /\ UNCHANGED <<Amounts, balancerVars, stepVars, execVars, pipeVars, accrVars, moreVars>>

\* a call of Balance.Book
DoBook(cr, dr, a, c) ==
    /\ InBounds(Book(Amounts, cr, dr, a, c))
    /\ Amounts' = Book(Amounts, cr, dr, a, c)
    /\ ret' = [NoRet EXCEPT !.op = "Book"]
    /\ ref' = [NoRef EXCEPT !.Amounts = Amounts']
    /\ UNCHANGED <<Accounts, balancerVars, stepVars, execVars, pipeVars, accrVars, moreVars>>

\* a call of Balance.BookAmount
DoBookAmount(t) ==
    LET r == BookAmount(Amounts, Accounts, t) IN
    /\ InBounds(r.Amounts)
    /\ Amounts' = r.Amounts
    /\ ret' = [op |-> "BookAmount", directive |-> t.Range, err |-> r.err, posting |-> None]
    /\ ref' = [Amounts |-> BookAll(Amounts, t.Postings, OpenPrefix(Accounts, t.Postings)),
               notOpen |-> \E i \in 1..Len(t.Postings) : ~BothOpen(Accounts, t.Postings[i]),
               raw |-> None]
    /\ UNCHANGED <<Accounts, balancerVars, stepVars, execVars, pipeVars, accrVars, moreVars>>

\* NewPosting followed by Book of the posting it returned
DoBookNewPosting(cr, dr, c, a) ==
    LET p == NewPosting(cr, dr, c, a) IN
    /\ InBounds(Book(Amounts, cr, dr, a, c))
    /\ Amounts' = Book(Amounts, p.Credit, p.Debit, p.Amount, p.Commodity)
    /\ ret' = [op |-> "NewPosting", directive |-> None, err |-> NoErr, posting |-> p]
    /\ ref' = [Amounts |-> Book(Amounts, cr, dr, a, c), notOpen |-> FALSE,
               raw |-> [Credit |-> cr, Debit |-> dr, Amount |-> a, Commodity |-> c]]
    /\ UNCHANGED <<Accounts, balancerVars, stepVars, execVars, pipeVars, accrVars, moreVars>>

Next ==
    \/ \E a \in AccountNames : OpenAccount(a)
    \/ \E a \in AccountNames : CloseAccount(a)
    \/ \E cr \in AccountNames, dr \in AccountNames, c \in Commodities,
          a \in (-MaxAmount)..MaxAmount : DoBook(cr, dr, a, c)
    \/ \E t \in Transactions : DoBookAmount(t)

Init == BalInit /\ BalancerIdle /\ StepsIdle /\ ExecIdle /\ PipeIdle /\ AccrIdle /\ MoreIdle

Spec == Init /\ [][Next]_vars

\* postings built by NewPosting and booked, next to raw calls of Book
NextPosting ==
    \/ \E cr \in AccountNames, dr \in AccountNames, c \in Commodities,
          a \in (-MaxAmount)..MaxAmount : DoBook(cr, dr, a, c)
    \/ \E cr \in AccountNames, dr \in AccountNames, c \in Commodities,
          a \in (-MaxAmount)..MaxAmount : DoBookNewPosting(cr, dr, c, a)

SpecPosting == Init /\ [][NextPosting]_vars

\* ------------------------------------------------------------ process.Balancer
BalancerInit ==
    /\ balancer = [accounts |-> {}, err |-> NoErr]
    /\ heap = [r \in {0} |-> EmptyMap]
    /\ days = <<>>
    /\ out = <<>>

\* Balancer.Process of the next day d: the booking steps on the Balancer's
\* own state, then the day is passed on with a clone of the amounts
BalancerProcess(d) ==
    LET b == ProcessDay([Amounts |-> heap[0], Accounts |-> balancer.accounts, err |-> NoErr], d)
        h == [heap EXCEPT ![0] = b.Amounts]
        c == Clone(h, 0)
    IN  /\ ~Failed(balancer)
        /\ Len(days) < MaxDays
        /\ InBounds(b.Amounts)
        /\ days' = Append(days, d)
        /\ balancer' = [accounts |-> b.Accounts, err |-> b.err]
        /\ IF Failed(b)
           THEN heap' = h /\ out' = out
           ELSE heap' = c.heap /\ out' = Append(out, [d EXCEPT !.Amounts = c.ref])
        /\ UNCHANGED <<balVars, stepVars, execVars, pipeVars, accrVars, moreVars>>

NextBalancer == \E d \in BalancerDays(Len(days) + 1) : BalancerProcess(d)

InitBalancer == BalancerInit /\ BalIdle /\ StepsIdle /\ ExecIdle /\ PipeIdle /\ AccrIdle /\ MoreIdle

SpecBalancer == InitBalancer /\ [][NextBalancer]_vars

\* ------------------------------------------- Ledger.Process(ProcessingSteps)
\* configurePipeline: a new balance and one of the two step lists
StepsInit ==
    /\ stepList \in {steps, stepsSnapshotterSecond}
    /\ day = NoDay
    /\ stepIdx = 0
    /\ bal = [Date |-> 0, Amounts |-> EmptyMap, Accounts |-> {}, err |-> NoErr]
    /\ result = [Date |-> 0, Amounts |-> EmptyMap]
    /\ dayStart = [Amounts |-> EmptyMap, Accounts |-> {}, done |-> {}, closed |-> {}]

\* Ledger.Process turns to the next day once every step has run on the last
NextDay ==
    /\ ~Failed(bal)
    /\ stepIdx = 0 \/ stepIdx > Len(stepList)
    /\ day.Date < MaxDays
    /\ \E d \in LedgerDays(day.Date + 1) : day' = d
    /\ stepIdx' = 1
    /\ dayStart' = [Amounts |-> bal.Amounts, Accounts |-> bal.Accounts, done |-> {},
                    closed |-> dayStart.closed]
    /\ UNCHANGED <<stepList, bal, result, balVars, balancerVars, execVars, pipeVars, accrVars, moreVars>>

\* step name is the next step of the day; it leaves b as the balance
Step(name, b) ==
    /\ ~Failed(bal)
    /\ stepIdx \in 1..Len(stepList)
    /\ stepList[stepIdx] = name
    /\ InBounds(b.Amounts)
    /\ bal' = b
    /\ stepIdx' = stepIdx + 1
    /\ dayStart' = [dayStart EXCEPT !.done = @ \cup {name},
                                    !.closed = (@ \ b.Accounts) \cup (bal.Accounts \ b.Accounts)]
    /\ UNCHANGED <<stepList, day, balVars, balancerVars, execVars, pipeVars, accrVars, moreVars>>

DateUpdater == Step("DateUpdater", [bal EXCEPT !.Date = day.Date]) /\ UNCHANGED result

AccountOpener == Step("AccountOpener", processOpenings(bal, day, 1)) /\ UNCHANGED result

TransactionBooker == Step("TransactionBooker", processTransactions(bal, day, 1)) /\ UNCHANGED result

\* the days here hold no value directives
ValueBooker == Step("ValueBooker", bal) /\ UNCHANGED result

Asserter == Step("Asserter", processAssertions(bal, day, 1)) /\ UNCHANGED result

\* no valuation commodity is set: the three valuation steps leave the balance alone
PriceUpdater == Step("PriceUpdater", bal) /\ UNCHANGED result

TransactionValuator == Step("TransactionValuator", bal) /\ UNCHANGED result

ValuationTransactionComputer == Step("ValuationTransactionComputer", bal) /\ UNCHANGED result

AccountCloser == Step("AccountCloser", processClosings(bal, day, 1)) /\ UNCHANGED result

\* the Snapshotter keeps a copy of the balance
Snapshotter ==
    /\ Step("Snapshotter", bal)
    /\ result' = [Date |-> bal.Date, Amounts |-> bal.Amounts]

NextSteps ==
    \/ NextDay
    \/ DateUpdater
    \/ AccountOpener
    \/ TransactionBooker
    \/ ValueBooker
    \/ Asserter
    \/ PriceUpdater
    \/ TransactionValuator
    \/ ValuationTransactionComputer
    \/ AccountCloser
    \/ Snapshotter

InitSteps == StepsInit /\ BalIdle /\ BalancerIdle /\ ExecIdle /\ PipeIdle /\ AccrIdle /\ MoreIdle

SpecSteps == InitSteps /\ [][NextSteps]_vars

\* ------------------------------------------- runner.execute: the select loop
\* the stages are started: three open channels, none of them nil
ExecInit ==
    /\ chans = [c \in Chans |-> [closed |-> FALSE, buf |-> <<>>]]
    /\ live = Chans
    /\ pc = "select"
    /\ retErr = None
    /\ cancelled = FALSE
    /\ rep = <<>>
    /\ raised = <<>>
    /\ received = <<>>
    /\ sent = <<>>

\* the error a stage sends on its error channel
StageError(c) == IF c = "errCh1" THEN "err1" ELSE "err3"

\* a receive on c can proceed: a sender offers a value, or c is closed
Ready(c) == chans[c].closed \/ chans[c].buf # <<>>

notExec == <<balVars, balancerVars, stepVars, pipeVars, accrVars, moreVars>>

\* a stage fails and offers its error on its error channel
StageRaise(c) ==
    /\ pc # "idle"
    /\ ~cancelled
    /\ ~chans[c].closed
    /\ chans[c].buf = <<>>
    /\ \A i \in 1..Len(raised) : raised[i] # StageError(c)
    /\ chans' = [chans EXCEPT ![c].buf = <<StageError(c)>>]
    /\ raised' = Append(raised, StageError(c))
    /\ UNCHANGED <<live, pc, retErr, cancelled, rep, received, sent, notExec>>

\* the period filter offers the next balance on ch4
StageSend ==
    /\ pc # "idle"
    /\ ~cancelled
    /\ ~chans["ch4"].closed
    /\ chans["ch4"].buf = <<>>
    /\ Len(sent) < MaxSent
    /\ chans' = [chans EXCEPT !["ch4"].buf = <<Len(sent) + 1>>]
    /\ sent' = Append(sent, Len(sent) + 1)
    /\ UNCHANGED <<live, pc, retErr, cancelled, rep, raised, received, notExec>>

\* a stage ends and closes its channel; once the context is cancelled it
\* gives up the value it was offering
StageClose(c) ==
    /\ pc # "idle"
    /\ ~chans[c].closed
    /\ chans[c].buf = <<>> \/ cancelled
    /\ chans' = [chans EXCEPT ![c] = [closed |-> TRUE, buf |-> <<>>]]
    /\ UNCHANGED <<live, pc, retErr, cancelled, rep, raised, received, sent, notExec>>

\* mutant: an error received on errCh3 does not end the loop
RecvErr_Err3Ignored(c) ==
    /\ pc = "select"
    /\ c \in live
    /\ Ready(c)
    /\ IF chans[c].buf = <<>>
       THEN /\ live' = live \ {c}
            /\ UNCHANGED <<chans, pc, retErr, cancelled, received>>
       ELSE /\ chans' = [chans EXCEPT ![c].buf = <<>>]
            /\ received' = Append(received, chans[c].buf[1])
            /\ IF c = "errCh3"
               THEN UNCHANGED <<pc, retErr, cancelled, live>>
               ELSE /\ pc' = "returned"
                    /\ retErr' = chans[c].buf[1]
                    /\ cancelled' = TRUE
                    /\ UNCHANGED live
    /\ UNCHANGED <<rep, raised, sent, notExec>>

\* case err, ok := <-errCh: a closed channel sets the variable to nil, an
\* error is returned (and the deferred cancel runs)
RecvErr(c) ==
    /\ pc = "select"
    /\ c \in live
    /\ Ready(c)
    /\ IF chans[c].buf = <<>>
       THEN /\ live' = live \ {c}
            /\ UNCHANGED <<chans, pc, retErr, cancelled, received>>
       ELSE /\ chans' = [chans EXCEPT ![c].buf = <<>>]
            /\ received' = Append(received, chans[c].buf[1])
            /\ pc' = "returned"
            /\ retErr' = chans[c].buf[1]
            /\ cancelled' = TRUE
            /\ UNCHANGED live
    /\ UNCHANGED <<rep, raised, sent, notExec>>

\* mutant: the balance received is put in front of the report
RecvBal_AddInFront ==
    /\ pc = "select"
    /\ "ch4" \in live
    /\ Ready("ch4")
    /\ IF chans["ch4"].buf = <<>>
       THEN /\ live' = live \ {"ch4"}
            /\ UNCHANGED <<chans, rep>>
       ELSE /\ chans' = [chans EXCEPT !["ch4"].buf = <<>>]
            /\ rep' = <<chans["ch4"].buf[1]>> \o rep
            /\ UNCHANGED live
    /\ UNCHANGED <<pc, retErr, cancelled, raised, received, sent, notExec>>

\* case bal, ok := <-ch4: a closed channel sets ch4 to nil, a balance is
\* added to the report
RecvBal ==
    /\ pc = "select"
    /\ "ch4" \in live
    /\ Ready("ch4")
    /\ IF chans["ch4"].buf = <<>>
       THEN /\ live' = live \ {"ch4"}
            /\ UNCHANGED <<chans, rep>>
       ELSE /\ chans' = [chans EXCEPT !["ch4"].buf = <<>>]
            /\ rep' = Append(rep, chans["ch4"].buf[1])
            /\ UNCHANGED live
    /\ UNCHANGED <<pc, retErr, cancelled, raised, received, sent, notExec>>

\* the loop ends once the three variables are nil: the report is rendered
\* and the deferred cancel runs
Render ==
    /\ pc = "select"
    /\ live = {}
    /\ pc' = "rendered"
    /\ cancelled' = TRUE
    /\ UNCHANGED <<chans, live, retErr, rep, raised, received, sent, notExec>>

NextExec ==
    \/ \E c \in ErrChans : StageRaise(c)
    \/ StageSend
    \/ \E c \in Chans : StageClose(c)
    \/ \E c \in ErrChans : RecvErr(c)
    \/ RecvBal
    \/ Render

InitExec == ExecInit /\ BalIdle /\ BalancerIdle /\ StepsIdle /\ PipeIdle /\ AccrIdle /\ MoreIdle

SpecExec == InitExec /\ [][NextExec]_vars

\* the goroutine of runner.execute keeps running: a case of the select that
\* stays ready is eventually taken, and the loop is left once its condition
\* is false; nothing is assumed of the stages
FairExec ==
    /\ \A c \in ErrChans : WF_vars(RecvErr(c))
    /\ WF_vars(RecvBal)
    /\ WF_vars(Render)

SpecExecFair == InitExec /\ [][NextExec]_vars /\ FairExec

\* ------------------------------------------------------ the staged pipeline
\* mutant: the comparison is reversed
CompareDays_Reversed(d, d2) ==
    IF d > d2 THEN "Smaller" ELSE IF d = d2 THEN "Equal" ELSE "Greater"

\* CompareDays: compare.Time of the two dates
CompareDays(d, d2) ==
    IF d < d2 THEN "Smaller" ELSE IF d = d2 THEN "Equal" ELSE "Greater"

\* dict.SortedValues(j.Days, CompareDays): the days in the order of CompareDays
SortedValues(ds) ==
    CHOOSE s \in [1..Cardinality(ds) -> ds] :
        /\ \A i, k \in 1..Cardinality(ds) : i < k => CompareDays(s[i], s[k]) = "Smaller"

\* Journal.Process
Process(j) == SortedValues(j)

\* mutant: the balancer is composed before the price updater
pipeline_BalancerFirst ==
    <<"journalSource", "balancer", "priceUpdater", "valuator", "aggregator">>

\* cpr.Compose(journalSource, priceUpdater), balancer, valuator and
\* cpr.Connect(s, aggregator)
pipeline ==
    <<"journalSource", "priceUpdater", "balancer", "valuator", "aggregator">>

Stages == {pipeline[k] : k \in 1..Len(pipeline)}

\* the journal is loaded; no day has been emitted
PipeInit ==
    /\ journal \in SUBSET (1..MaxDate)
    /\ src = Process(journal)
    /\ queues = [k \in 1..(Len(pipeline) - 1) |-> <<>>]
    /\ holding = [k \in 2..Len(pipeline) |-> <<>>]
    /\ seen = [s \in Stages |-> <<>>]
    /\ done = [s \in Stages |-> <<>>]

notPipe == <<balVars, balancerVars, stepVars, execVars, accrVars, moreVars>>

\* the source emits its next day into the first queue
SourceEmit ==
    /\ src # <<>>
    /\ Len(queues[1]) < ChanCap
    /\ src' = Tail(src)
    /\ queues' = [queues EXCEPT ![1] = Append(@, Head(src))]
    /\ seen' = [seen EXCEPT ![pipeline[1]] = Append(@, Head(src))]
    /\ done' = [done EXCEPT ![pipeline[1]] = Append(@, Head(src))]
    /\ UNCHANGED <<journal, holding, notPipe>>

\* stage k takes the next day from the queue before it and processes it
StageTake(k) ==
    /\ holding[k] = <<>>
    /\ queues[k - 1] # <<>>
    /\ queues' = [queues EXCEPT ![k - 1] = Tail(@)]
    /\ holding' = [holding EXCEPT ![k] = <<Head(queues[k - 1])>>]
    /\ seen' = [seen EXCEPT ![pipeline[k]] = Append(@, Head(queues[k - 1]))]
    /\ UNCHANGED <<journal, src, done, notPipe>>

\* stage k has processed its day and puts it into the queue after it
StageGive(k) ==
    /\ holding[k] # <<>>
    /\ Len(queues[k]) < ChanCap
    /\ queues' = [queues EXCEPT ![k] = Append(@, holding[k][1])]
    /\ holding' = [holding EXCEPT ![k] = <<>>]
    /\ done' = [done EXCEPT ![pipeline[k]] = Append(@, holding[k][1])]
    /\ UNCHANGED <<journal, src, seen, notPipe>>

\* the final consumer has processed its day
SinkDone ==
    /\ holding[Len(pipeline)] # <<>>
    /\ holding' = [holding EXCEPT ![Len(pipeline)] = <<>>]
    /\ done' = [done EXCEPT ![pipeline[Len(pipeline)]] = Append(@, holding[Len(pipeline)][1])]
    /\ UNCHANGED <<journal, src, queues, seen, notPipe>>

NextPipe ==
    \/ SourceEmit
    \/ \E k \in 2..Len(pipeline) : StageTake(k)
    \/ \E k \in 2..(Len(pipeline) - 1) : StageGive(k)
    \/ SinkDone

InitPipe == PipeInit /\ BalIdle /\ BalancerIdle /\ StepsIdle /\ ExecIdle /\ AccrIdle /\ MoreIdle

SpecPipe == InitPipe /\ [][NextPipe]_vars

\* ------------------------------------------------------------ Accrual.Expand
AccrualAccounts == {"Assets:Bank", "Liabilities:Card", "Income:Salary", "Expenses:Rent"}

\* Account.Type: the account type named by the first segment
Type(a) ==
    CASE a = "Assets:Bank" -> "ASSETS"
      [] a = "Liabilities:Card" -> "LIABILITIES"
      [] a = "Income:Salary" -> "INCOME"
      [] a = "Expenses:Rent" -> "EXPENSES"
      [] OTHER -> "EQUITY"

isAL(a) == Type(a) = "ASSETS" \/ Type(a) = "LIABILITIES"

isIE(a) == Type(a) = "INCOME" \/ Type(a) = "EXPENSES"

Periods == {"Days", "Weeks"}

\* the last day of each month of 2024, as day numbers from 2024-01-01 = 0
MonthEnds == <<30, 59, 90, 121, 151, 182, 212, 243, 273, 304, 334, 365>>

\* date.StartOf and date.EndOf: the first and the last day of the bucket of t
\* (day 0 is Monday 2024-01-01; months are those of 2024)
StartOf(t, p) ==
    CASE p = "Days" -> t
      [] p = "Weeks" -> t - (t % 7)
      [] p = "Months" ->
             LET m == CHOOSE k \in 1..12 : t =< MonthEnds[k] /\ (k = 1 \/ t > MonthEnds[k - 1])
             IN  IF m = 1 THEN 0 ELSE MonthEnds[m - 1] + 1

EndOf(t, p) ==
    CASE p = "Days" -> t
      [] p = "Weeks" -> StartOf(t, p) + 6
      [] p = "Months" -> MonthEnds[CHOOSE k \in 1..12 : t =< MonthEnds[k] /\ (k = 1 \/ t > MonthEnds[k - 1])]

RECURSIVE SeriesFrom(_, _, _)
SeriesFrom(t, t1, p) ==
    IF t > t1 THEN <<>> ELSE <<EndOf(t, p)>> \o SeriesFrom(EndOf(t, p) + 1, t1, p)

\* date.Series: the day before the bucket of t0, then the end of every bucket
\* from t0 to t1
Series(t0, t1, p) == <<StartOf(t0, p) - 1>> \o SeriesFrom(t0, t1, p)

RECURSIVE Pow10(_)
Pow10(n) == IF n = 0 THEN 1 ELSE 10 * Pow10(n - 1)

\* decimal.QuoRem(d2, precision) on amounts in hundredths: the quotient has
\* precision decimal places (truncated), the remainder is d - d2 * quotient
QuoRem(d, d2, precision) ==
    LET bb == d2 * Pow10(2 - precision)
        q == IF d >= 0 THEN d \div bb ELSE -((-d) \div bb)
    IN  [q |-> q * Pow10(2 - precision), r |-> d - d2 * q * Pow10(2 - precision)]

\* mutant: the first element of the series is kept
dates_KeepFirst(a) == Series(a.T0, a.T1, a.Period)

\* date.Series(a.T0, a.T1, a.Period)[1:]
dates(a) == Tail(Series(a.T0, a.T1, a.Period))

\* mutant: the remainder is dropped
multiAmount_NoRem(amount, rem, i) == amount

\* the amount of the i-th multi-period transaction (i counted from 1)
multiAmount(amount, rem, i) == IF i = 1 THEN amount + rem ELSE amount

\* mutant: income/expense credit with asset/liability debit is treated like
\* asset/liability credit with income/expense debit
legAccounts_SecondAsFirst(posting, account) ==
    CASE (isAL(posting.Credit) /\ isIE(posting.Debit))
           \/ (isIE(posting.Credit) /\ isAL(posting.Debit)) ->
             [crS |-> posting.Credit, drS |-> account,
              crM |-> account, drM |-> posting.Debit]
      [] isIE(posting.Credit) /\ isIE(posting.Debit) ->
             [crS |-> account, drS |-> account,
              crM |-> posting.Credit, drM |-> posting.Debit]
      [] OTHER ->
             [crS |-> posting.Credit, drS |-> posting.Debit,
              crM |-> account, drM |-> account]

\* the switch of Accrual.Expand: the credit and debit accounts of the single
\* leg and of the multi-period leg, all four starting as the split account
legAccounts(posting, account) ==
    CASE isAL(posting.Credit) /\ isIE(posting.Debit) ->
             [crS |-> posting.Credit, drS |-> account,
              crM |-> account, drM |-> posting.Debit]
      [] isIE(posting.Credit) /\ isAL(posting.Debit) ->
             [crS |-> account, drS |-> posting.Debit,
              crM |-> posting.Credit, drM |-> account]
      [] isIE(posting.Credit) /\ isIE(posting.Debit) ->
             [crS |-> account, drS |-> account,
              crM |-> posting.Credit, drM |-> posting.Debit]
      [] OTHER ->
             [crS |-> posting.Credit, drS |-> posting.Debit,
              crM |-> account, drM |-> account]

\* fmt.Sprintf("%s (accrual %d/%d)", ...) keeps the text and the two numbers
Expand(a) ==
    LET t == a.Transaction
        posting == t.Postings[1]
        acc == legAccounts(posting, a.Account)
        ds == dates(a)
        qr == QuoRem(posting.Amount, Len(ds), 1)
        multi == IF acc.crM # acc.drM
                 THEN [i \in 1..Len(ds) |->
                          [Range |-> t.Range,
                           Date |-> ds[i],
                           Description |-> [text |-> t.Description.text,
                                            accrual |-> <<i, Len(ds)>>],
                           Postings |-> <<NewPosting(acc.crM, acc.drM, posting.Commodity,
                                                     multiAmount(qr.q, qr.r, i))>>]]
                 ELSE <<>>
        single == IF acc.crS # acc.drS
                  THEN <<[Range |-> t.Range,
                          Date |-> t.Date,
                          Description |-> t.Description,
                          Postings |-> <<NewPosting(acc.crS, acc.drS, posting.Commodity,
                                                    posting.Amount)>>]>>
                  ELSE <<>>
    IN  multi \o single

\* the accruals with a template amount in amts: the template has one
\* posting, built by NewPosting
Accruals(amts) ==
    {[T0 |-> t0, T1 |-> t1, Period |-> p, Account |-> s,
      Transaction |-> [Range |-> "j:1", Date |-> t0,
                       Description |-> [text |-> "rent", accrual |-> <<>>],
                       Postings |-> <<NewPosting(cr, dr, "USD", amt)>>]] :
        t0 \in 0..MaxAccrualDate, t1 \in 0..MaxAccrualDate, p \in Periods,
        s \in {"Assets:Bank", "Expenses:Rent"},
        cr \in AccrualAccounts, dr \in AccrualAccounts, amt \in amts}

AccrInit ==
    /\ accrual \in {a \in Accruals(0..MaxAccrualAmount) : a.T0 =< a.T1}
    /\ expanded = <<>>
    /\ apc = "input"

\* the journal builder expands the accrual
ExpandAccrual ==
    /\ apc = "input"
    /\ expanded' = Expand(accrual)
    /\ apc' = "expanded"
    /\ UNCHANGED <<accrual, balVars, balancerVars, stepVars, execVars, pipeVars, moreVars>>

NextAccr == ExpandAccrual

InitAccr == AccrInit /\ BalIdle /\ BalancerIdle /\ StepsIdle /\ ExecIdle /\ PipeIdle /\ MoreIdle

SpecAccr == InitAccr /\ [][NextAccr]_vars

\* ------------------------------------------------- Accrual.Expand: the legs
LegAccounts == AccrualAccounts \cup {"Equity:Equity"}

\* accruals over all account types for credit, debit and split account
LegAccruals ==
    {[T0 |-> t0, T1 |-> t1, Period |-> p, Account |-> s,
      Transaction |-> [Range |-> "j:1", Date |-> t0,
                       Description |-> [text |-> "rent", accrual |-> <<>>],
                       Postings |-> <<NewPosting(cr, dr, "USD", amt)>>]] :
        t0 \in 0..MaxDays, t1 \in 0..MaxDays, p \in Periods,
        s \in LegAccounts, cr \in LegAccounts, dr \in LegAccounts, amt \in 0..MaxAmount}

\* the rent template: 1200.00 USD from 2024-01-01, monthly, to a month end
RentAccruals ==
    {[T0 |-> 0, T1 |-> MonthEnds[m], Period |-> "Months", Account |-> s,
      Transaction |-> [Range |-> "j:1", Date |-> 0,
                       Description |-> [text |-> "rent", accrual |-> <<>>],
                       Postings |-> <<NewPosting(cr, dr, "USD", 120000)>>]] :
        m \in 1..12, s \in LegAccounts,
        cr \in {"Expenses:Rent", "Assets:Bank"}, dr \in {"Expenses:Rent", "Assets:Bank"}}

LegsInit ==
    /\ accrual \in {a \in LegAccruals : a.T0 =< a.T1} \cup RentAccruals
    /\ expanded = <<>>
    /\ apc = "input"

InitLegs == LegsInit /\ BalIdle /\ BalancerIdle /\ StepsIdle /\ ExecIdle /\ PipeIdle /\ MoreIdle

SpecLegs == InitLegs /\ [][NextAccr]_vars

\* ------------------------------------------------------------- the valuator
baseVars == <<balVars, balancerVars, stepVars, execVars, pipeVars, accrVars>>

oldVars == <<baseVars, lateVars>>

BaseIdle == BalIdle /\ BalancerIdle /\ StepsIdle /\ ExecIdle /\ PipeIdle /\ AccrIdle

OldIdle == BaseIdle /\ LateIdle

\* the valuation commodity T and the account of the valuation bookings
ValuationCommodity == "USD"

ValuationAccount == "Equity:Valuation"

\* the value in T of amount a of commodity c, at price units of T per unit
Valuate(price, c, a) == IF c = ValuationCommodity THEN a ELSE a * price

RECURSIVE bookValueFrom_CreditOnly(_, _, _)
\* mutant: the value is not added to the debit position
bookValueFrom_CreditOnly(values, ps, i) ==
    IF i > Len(ps) THEN values
    ELSE LET crPos == CommodityAccount(ps[i].Credit, ps[i].Commodity)
         IN  bookValueFrom_CreditOnly(Put(values, crPos, Get(values, crPos) - ps[i].Value), ps, i + 1)

RECURSIVE bookValueFrom(_, _, _)
\* the loop of Balance.bookValue from posting i on
bookValueFrom(values, ps, i) ==
    IF i > Len(ps) THEN values
    ELSE LET crPos == CommodityAccount(ps[i].Credit, ps[i].Commodity)
             drPos == CommodityAccount(ps[i].Debit, ps[i].Commodity)
             v1 == Put(values, crPos, Get(values, crPos) - ps[i].Value)
             v2 == Put(v1, drPos, Get(v1, drPos) + ps[i].Value)
         IN  bookValueFrom(v2, ps, i + 1)

bookValue(values, t) == bookValueFrom(values, t.Postings, 1)

\* a posting as the parser leaves it: no value yet
Unvalued(p) ==
    [Credit |-> p.Credit, Debit |-> p.Debit, Amount |-> p.Amount,
     Commodity |-> p.Commodity, Value |-> 0]

\* step 1 of the valuator on one transaction: every posting gets its value
valuateTransaction(t, price) ==
    [t EXCEPT !.Postings =
        [i \in 1..Len(t.Postings) |->
            [t.Postings[i] EXCEPT !.Value = Valuate(price, t.Postings[i].Commodity,
                                                    t.Postings[i].Amount)]]]

RECURSIVE bookValues(_, _, _)
\* the values of the first n transactions of ts are booked
bookValues(values, ts, n) ==
    IF n = 0 THEN values ELSE bookValue(bookValues(values, ts, n - 1), ts[n])

RECURSIVE adjust(_, _, _, _)
\* step 2 of the valuator over the positions in todo: a position whose value
\* differs from its amount at the price of the day gets a valuation
\* transaction of amount 0 from the valuation account, which is booked
adjust(r, amounts, price, todo) ==
    IF todo = {} THEN r
    ELSE LET k == CHOOSE x \in todo : TRUE
             delta == Valuate(price, k.Commodity, amounts[k]) - Get(r.Values, k)
             t == [Range |-> "valuation",
                   Postings |-> <<[Credit |-> ValuationAccount, Debit |-> k.Account,
                                   Amount |-> 0, Commodity |-> k.Commodity,
                                   Value |-> delta]>>]
         IN  IF delta = 0
             THEN adjust(r, amounts, price, todo \ {k})
             ELSE adjust([Values |-> bookValue(r.Values, t), txs |-> Append(r.txs, t)],
                         amounts, price, todo \ {k})

\* step 2 of the valuator on day d
computeValuationTransactions(values, amounts, price, d) ==
    LET r == adjust([Values |-> values, txs |-> <<>>], amounts, price,
                    {k \in DOMAIN amounts : amounts[k] # 0})
    IN  [Values |-> r.Values, day |-> [d EXCEPT !.Adjustments = @ \o r.txs]]

\* the valuator on day d: the postings are valued and their values booked,
\* then the valuation transactions are computed
Valuator(values, amounts, price, d) ==
    LET ts == [i \in 1..Len(d.Transactions) |-> valuateTransaction(d.Transactions[i], price)]
    IN  computeValuationTransactions(bookValues(values, ts, Len(ts)), amounts, price,
                                     [d EXCEPT !.Transactions = ts])

EmptyValDay == [Transactions |-> <<>>, Adjustments |-> <<>>]

\* the transactions of a day before valuation
ValDayTransactions ==
    {<<>>} \cup {<<[Range |-> t.Range,
                    Postings |-> [i \in 1..Len(t.Postings) |-> Unvalued(t.Postings[i])]]>> :
                    t \in DayTransactions}

ValInit ==
    val = [pc |-> "valued", n |-> 0, price |-> 1,
           Amounts |-> EmptyMap, Values |-> EmptyMap, day |-> EmptyValDay,
           prev |-> [Values |-> EmptyMap, day |-> EmptyValDay]]

notVal == <<dif, ord, jrn, ctx, emp, oldVars>>

\* the next day is booked and its prices are normalized
BookValDay(ts, price) ==
    /\ val.pc = "valued"
    /\ val.n < MaxValDays
    /\ LET amts == IF ts = <<>> THEN val.Amounts
                   ELSE BookAll(val.Amounts, ts[1].Postings, Len(ts[1].Postings))
       IN  /\ InBounds(amts)
           /\ val' = [val EXCEPT !.pc = "booked", !.n = @ + 1, !.price = price,
                                 !.Amounts = amts,
                                 !.day = [Transactions |-> ts, Adjustments |-> <<>>]]
    /\ UNCHANGED notVal

\* the valuator runs on the booked day
ValuateDay ==
    /\ val.pc = "booked"
    /\ LET r == Valuator(val.Values, val.Amounts, val.price, val.day)
       IN  val' = [val EXCEPT !.pc = "valued", !.Values = r.Values, !.day = r.day, !.prev = r]
    /\ UNCHANGED notVal

\* the valuator runs once more on the day it has valued
Revaluate ==
    /\ val.pc = "valued"
    /\ val.n > 0
    /\ LET r == Valuator(val.Values, val.Amounts, val.price, val.day)
       IN  val' = [val EXCEPT !.pc = "revalued", !.Values = r.Values, !.day = r.day]
    /\ UNCHANGED notVal

\* only the valuation transactions are computed once more
Readjust ==
    /\ val.pc = "valued"
    /\ val.n > 0
    /\ LET r == computeValuationTransactions(val.Values, val.Amounts, val.price, val.day)
       IN  val' = [val EXCEPT !.pc = "readjusted", !.Values = r.Values, !.day = r.day]
    /\ UNCHANGED notVal

NextVal ==
    \/ \E ts \in ValDayTransactions : \E price \in 1..MaxPrice : BookValDay(ts, price)
    \/ ValuateDay
    \/ Revaluate
    \/ Readjust

InitVal == ValInit /\ OldIdle /\ DifIdle /\ OrdIdle /\ JrnIdle /\ CtxIdle /\ EmpIdle

SpecVal == InitVal /\ [][NextVal]_vars

\* -------------------------------------------------------------------- Diffs
\* the loops of Balance.Minus on one of the two maps: every position of mo
\* is subtracted, a position missing in m counting as zero
MinusMap(m, mo) ==
    [k \in (DOMAIN m) \cup (DOMAIN mo) |-> IF k \in DOMAIN mo THEN Get(m, k) - mo[k] ELSE m[k]]

\* Balance.Minus
Minus(b, bo) ==
    [Amounts |-> MinusMap(b.Amounts, bo.Amounts), Values |-> MinusMap(b.Values, bo.Values)]

RECURSIVE DiffsLoop_Ascending(_, _)
\* mutant: the loop runs from the first balance to the last
DiffsLoop_Ascending(bals, i) ==
    IF i < 2 THEN bals
    ELSE LET bs == DiffsLoop_Ascending(bals, i - 1)
         IN  [bs EXCEPT ![i] = Minus(bs[i], bs[i - 1])]

RECURSIVE DiffsLoop(_, _)
\* the loop of Diffs from index i down (indices from 1): bals[i] is replaced
\* by bals[i] minus bals[i-1]
DiffsLoop(bals, i) ==
    IF i < 2 THEN bals
    ELSE DiffsLoop([bals EXCEPT ![i] = Minus(bals[i], bals[i - 1])], i - 1)

\* Diffs: bals[1:] after the loop
Diffs(bals) == Tail(DiffsLoop(bals, Len(bals)))

DiffKeys == {CommodityAccount("Assets:Bank", "USD"), CommodityAccount("Income:Salary", "USD")}

\* the maps from some of the keys in ks to the numbers in ns
PartialMaps(ks, ns) == UNION {[d -> ns] : d \in SUBSET ks}

\* the cumulative balances: distinct objects, amounts and values
DiffBalances ==
    [Amounts : PartialMaps(DiffKeys, {0, 1}),
     Values : PartialMaps({CommodityAccount("Assets:Bank", "USD")}, {2})]

DifInit ==
    /\ \E n \in 1..MaxBals : \E bs \in [1..n -> DiffBalances] :
           dif = [pc |-> "input", bals |-> bs, mutated |-> bs, result |-> <<>>]

notDif == <<val, ord, jrn, ctx, emp, oldVars>>

\* Diffs is called on the balances
CallDiffs ==
    /\ dif.pc = "input"
    /\ dif' = [dif EXCEPT !.pc = "done",
                          !.mutated = DiffsLoop(dif.bals, Len(dif.bals)),
                          !.result = Diffs(dif.bals)]
    /\ UNCHANGED notDif

NextDif == CallDiffs

InitDif == DifInit /\ OldIdle /\ ValIdle /\ OrdIdle /\ JrnIdle /\ CtxIdle /\ EmpIdle

SpecDif == InitDif /\ [][NextDif]_vars

\* ---------------------------------------------------- CommodityAccount.Less
\* Names and codes are strings, here sequences of the characters 1 ("E") and
\* 2 ("I"), compared as Go compares strings.
StrLess(s, t) ==
    \E i \in 1..(Len(s) + 1) :
        /\ \A j \in 1..(i - 1) : j =< Len(t) /\ s[j] = t[j]
        /\ i =< Len(t)
        /\ i > Len(s) \/ s[i] < t[i]

\* the account types in the order of their declaration
TypeRank(t) ==
    CASE t = "ASSETS" -> 0
      [] t = "LIABILITIES" -> 1
      [] t = "EQUITY" -> 2
      [] t = "INCOME" -> 3
      [] t = "EXPENSES" -> 4

\* Account.Type of a name: names in "E" are expenses, names in "I" income
TypeOfName(n) == IF n[1] = 1 THEN "EXPENSES" ELSE "INCOME"

\* mutant: the account types are not compared
Less_NoType(p, p1) ==
    IF p.Account # p1.Account
    THEN StrLess(p.Account, p1.Account)
    ELSE StrLess(p.Commodity, p1.Commodity)

\* CommodityAccount.Less
Less(p, p1) ==
    IF TypeOfName(p.Account) # TypeOfName(p1.Account)
    THEN TypeRank(TypeOfName(p.Account)) < TypeRank(TypeOfName(p1.Account))
    ELSE IF p.Account # p1.Account
    THEN StrLess(p.Account, p1.Account)
    ELSE StrLess(p.Commodity, p1.Commodity)

\* the position keys: interned accounts and commodities, one per name
OrdKeys ==
    [Account : UNION {[1..n -> {1, 2}] : n \in 1..MaxNameLen},
     Commodity : {<<1>>, <<2>>}]

OrdInit ==
    \E p \in OrdKeys : \E q \in OrdKeys : \E r \in OrdKeys :
        ord = [pc |-> "input", p |-> p, q |-> q, r |-> r,
               pp |-> FALSE, pq |-> FALSE, qp |-> FALSE, qr |-> FALSE, pr |-> FALSE]

notOrd == <<val, dif, jrn, ctx, emp, oldVars>>

\* the keys are compared with Less, as sort.Slice does in mergePositions
Compare ==
    /\ ord.pc = "input"
    /\ ord' = [ord EXCEPT !.pc = "done",
                          !.pp = Less(ord.p, ord.p),
                          !.pq = Less(ord.p, ord.q),
                          !.qp = Less(ord.q, ord.p),
                          !.qr = Less(ord.q, ord.r),
                          !.pr = Less(ord.p, ord.r)]
    /\ UNCHANGED notOrd

NextOrd == Compare

InitOrd == OrdInit /\ OldIdle /\ ValIdle /\ DifIdle /\ JrnIdle /\ CtxIdle /\ EmpIdle

SpecOrd == InitOrd /\ [][NextOrd]_vars

\* ------------------------------------------------------ journal2.Journal
\* date.Date(9999, 12, 31) and time.Time{}, as day numbers
MaxTime == 99

ZeroTime == 0

Kinds == {"Open", "Price", "Transaction", "Assertion", "Close"}

NewDay(d) ==
    [Date |-> d, Prices |-> <<>>, Assertions |-> <<>>, Openings |-> <<>>,
     Transactions |-> <<>>, Closings |-> <<>>]

\* dict.GetDefault(j.Days, d, ...) as far as the map goes: a missing day is
\* created with Date d and stored under d
GetDefault(m, d) ==
    IF d \in DOMAIN m THEN m ELSE [k \in (DOMAIN m) \cup {d} |-> IF k = d THEN NewDay(d) ELSE m[k]]

\* mutant: the directive is put in front of the list
AppendToDay_Prepend(m, d, f, x) ==
    LET m1 == GetDefault(m, d)
    IN  IF d \in DOMAIN m1 THEN [m1 EXCEPT ![d][f] = <<x>> \o @] ELSE m1

\* Journal.Day followed by an append to the list named f of the day; a day
\* that is not stored is lost with the directive
AppendToDay(m, d, f, x) ==
    LET m1 == GetDefault(m, d)
    IN  IF d \in DOMAIN m1 THEN [m1 EXCEPT ![d][f] = Append(@, x)] ELSE m1

\* journal.New
JrnInit ==
    jrn = [pc |-> "open", Days |-> <<>>, min |-> MaxTime, max |-> ZeroTime,
           added |-> <<>>, sorted |-> <<>>]

notJrn == <<val, dif, ord, ctx, emp, oldVars>>

\* the directive of kind k and date d added next: a new object
NextDirective(k, d) == [kind |-> k, Date |-> d, id |-> Len(jrn.added) + 1]

AddOpen(d) ==
    /\ Len(jrn.added) < MaxAdds
    /\ LET o == NextDirective("Open", d)
       IN  jrn' = [jrn EXCEPT !.Days = AppendToDay(jrn.Days, d, "Openings", o),
                              !.added = Append(@, o),
                              !.pc = "open", !.sorted = <<>>]
    /\ UNCHANGED notJrn

AddPrice(d) ==
    /\ Len(jrn.added) < MaxAdds
    /\ LET p == NextDirective("Price", d)
       IN  jrn' = [jrn EXCEPT !.Days = AppendToDay(jrn.Days, d, "Prices", p),
                              !.max = IF jrn.max < d THEN d ELSE @,
                              !.added = Append(@, p),
                              !.pc = "open", !.sorted = <<>>]
    /\ UNCHANGED notJrn

\* mutant: the minimum is left alone
AddTransaction_NoMin(d) ==
    /\ Len(jrn.added) < MaxAdds
    /\ LET t == NextDirective("Transaction", d)
       IN  jrn' = [jrn EXCEPT !.Days = AppendToDay(jrn.Days, d, "Transactions", t),
                              !.max = IF jrn.max < d THEN d ELSE @,
                              !.added = Append(@, t),
                              !.pc = "open", !.sorted = <<>>]
    /\ UNCHANGED notJrn

AddTransaction(d) ==
    /\ Len(jrn.added) < MaxAdds
    /\ LET t == NextDirective("Transaction", d)
       IN  jrn' = [jrn EXCEPT !.Days = AppendToDay(jrn.Days, d, "Transactions", t),
                              !.max = IF jrn.max < d THEN d ELSE @,
                              !.min = IF jrn.min > d THEN d ELSE @,
                              !.added = Append(@, t),
                              !.pc = "open", !.sorted = <<>>]
    /\ UNCHANGED notJrn

AddAssertion(d) ==
    /\ Len(jrn.added) < MaxAdds
    /\ LET a == NextDirective("Assertion", d)
       IN  jrn' = [jrn EXCEPT !.Days = AppendToDay(jrn.Days, d, "Assertions", a),
                              !.added = Append(@, a),
                              !.pc = "open", !.sorted = <<>>]
    /\ UNCHANGED notJrn

AddClose(d) ==
    /\ Len(jrn.added) < MaxAdds
    /\ LET c == NextDirective("Close", d)
       IN  jrn' = [jrn EXCEPT !.Days = AppendToDay(jrn.Days, d, "Closings", c),
                              !.added = Append(@, c),
                              !.pc = "open", !.sorted = <<>>]
    /\ UNCHANGED notJrn

\* Journal.Period
Period(j) == [Start |-> j.min, End |-> j.max]

\* Journal.Process on the day records: sorted by CompareDays of their dates
\* (slice.Parallel keeps the order)
ProcessDays(m) ==
    LET s == Process({m[k].Date : k \in DOMAIN m})
    IN  [i \in 1..Len(s) |-> m[CHOOSE k \in DOMAIN m : m[k].Date = s[i]]]

\* a call of Journal.Process
CallProcess ==
    /\ jrn' = [jrn EXCEPT !.pc = "Process", !.sorted = ProcessDays(jrn.Days)]
    /\ UNCHANGED notJrn

\* a call of Journal.Sorted: Process(Sort()), the error dropped
CallSorted ==
    /\ jrn' = [jrn EXCEPT !.pc = "Sorted", !.sorted = ProcessDays(jrn.Days)]
    /\ UNCHANGED notJrn

NextJrn ==
    \/ \E d \in 1..MaxJrnDate : AddOpen(d)
    \/ \E d \in 1..MaxJrnDate : AddPrice(d)
    \/ \E d \in 1..MaxJrnDate : AddTransaction(d)
    \/ \E d \in 1..MaxJrnDate : AddAssertion(d)
    \/ \E d \in 1..MaxJrnDate : AddClose(d)
    \/ CallProcess
    \/ CallSorted

InitJrn == JrnInit /\ OldIdle /\ ValIdle /\ DifIdle /\ OrdIdle /\ CtxIdle /\ EmpIdle

SpecJrn == InitJrn /\ [][NextJrn]_vars

\* ------------------------------------------------------- ledger.Context
EquityAccount == "Equity:Equity"

RetainedEarningsAccount == "Equity:RetainedEarnings"

TBDAccount == "Expenses:TBD"

\* account names and commodity codes of the registry's form
ValidAccountNames ==
    {ValuationAccount, EquityAccount, RetainedEarningsAccount, TBDAccount, "Assets:Bank"}

ValidCommodityNames == {"USD", "CHF"}

\* names the registries reject
InvalidNames == {"bank"}

\* the nil pointer
Nil == 0

\* Accounts.Get and Commodities.Get on registry reg (name -> object), with
\* next the address of the next object allocated: an invalid name is an
\* error, a known name returns its object, an unknown one is created
RegistryGet(reg, next, name, valid) ==
    IF name \notin valid THEN [reg |-> reg, next |-> next, obj |-> Nil, err |-> TRUE]
    ELSE IF name \in DOMAIN reg THEN [reg |-> reg, next |-> next, obj |-> reg[name], err |-> FALSE]
    ELSE [reg |-> Put(reg, name, next), next |-> next + 1, obj |-> next, err |-> FALSE]

\* mutant: the lookup goes to a registry of its own
GetAccount_OwnRegistry(c, name) == RegistryGet(EmptyMap, c.next, name, ValidAccountNames)

\* Context.GetAccount
GetAccount(c, name) == RegistryGet(c.accounts, c.next, name, ValidAccountNames)

\* Context.GetCommodity
GetCommodity(c, name) == RegistryGet(c.commodities, c.next, name, ValidCommodityNames)

\* NewContext
CtxInit ==
    ctx = [pc |-> "ready", accounts |-> EmptyMap, commodities |-> EmptyMap,
           next |-> 1, calls |-> <<>>]

notCtx == <<val, dif, ord, jrn, emp, oldVars>>

\* the context after a lookup of an account by function fn returned r
AfterAccount(fn, name, r) ==
    [ctx EXCEPT !.accounts = r.reg, !.next = r.next,
                !.calls = Append(@, [fn |-> fn, kind |-> "account", name |-> name,
                                     obj |-> r.obj, err |-> r.err])]

CallGetAccount(name) ==
    /\ ctx.pc = "ready"
    /\ Len(ctx.calls) < MaxLookups
    /\ ctx' = AfterAccount("GetAccount", name, GetAccount(ctx, name))
    /\ UNCHANGED notCtx

CallGetCommodity(name) ==
    /\ ctx.pc = "ready"
    /\ Len(ctx.calls) < MaxLookups
    /\ LET r == GetCommodity(ctx, name)
       IN  ctx' = [ctx EXCEPT !.commodities = r.reg, !.next = r.next,
                              !.calls = Append(@, [fn |-> "GetCommodity", kind |-> "commodity",
                                                   name |-> name, obj |-> r.obj, err |-> r.err])]
    /\ UNCHANGED notCtx

\* the context after the accessor fn of the reserved account name: it panics
\* on an error
Reserved(fn, name) ==
    LET r == GetAccount(ctx, name)
    IN  IF r.err THEN [ctx EXCEPT !.pc = "panic"] ELSE AfterAccount(fn, name, r)

CallValuationAccount ==
    /\ ctx.pc = "ready"
    /\ Len(ctx.calls) < MaxLookups
    /\ ctx' = Reserved("ValuationAccount", ValuationAccount)
    /\ UNCHANGED notCtx

CallEquityAccount ==
    /\ ctx.pc = "ready"
    /\ Len(ctx.calls) < MaxLookups
    /\ ctx' = Reserved("EquityAccount", EquityAccount)
    /\ UNCHANGED notCtx

CallRetainedEarningsAccount ==
    /\ ctx.pc = "ready"
    /\ Len(ctx.calls) < MaxLookups
    /\ ctx' = Reserved("RetainedEarningsAccount", RetainedEarningsAccount)
    /\ UNCHANGED notCtx

CallTBDAccount ==
    /\ ctx.pc = "ready"
    /\ Len(ctx.calls) < MaxLookups
    /\ ctx' = Reserved("TBDAccount", TBDAccount)
    /\ UNCHANGED notCtx

NextCtx ==
    \/ \E name \in ValidAccountNames \cup InvalidNames : CallGetAccount(name)
    \/ \E name \in ValidCommodityNames \cup InvalidNames : CallGetCommodity(name)
    \/ CallValuationAccount
    \/ CallEquityAccount
    \/ CallRetainedEarningsAccount
    \/ CallTBDAccount

InitCtx == CtxInit /\ OldIdle /\ ValIdle /\ DifIdle /\ OrdIdle /\ JrnIdle /\ EmpIdle

SpecCtx == InitCtx /\ [][NextCtx]_vars

\* --------------------------------------------- the balance command, no days
RECURSIVE FirstOpening(_, _)
\* the loop of Ledger.MinDate from day i: the first day with an opening
FirstOpening(ds, i) ==
    IF i > Len(ds) THEN [date |-> ZeroTime, ok |-> FALSE]
    ELSE IF Len(ds[i].Openings) > 0 THEN [date |-> ds[i].Date, ok |-> TRUE]
    ELSE FirstOpening(ds, i + 1)

\* mutant: a ledger without openings has a minimum date as well
LedgerMinDate_AlwaysOk(ds) == [date |-> ZeroTime, ok |-> TRUE]

\* Ledger.MinDate
LedgerMinDate(ds) == FirstOpening(ds, 1)

\* Ledger.MaxDate
LedgerMaxDate(ds) ==
    IF Len(ds) = 0 THEN [date |-> ZeroTime, ok |-> FALSE]
    ELSE [date |-> ds[Len(ds)].Date, ok |-> TRUE]

\* Ledger.Dates; from and to are pointers, set or nil
LedgerDates(ds, fromSet, from, toSet, to, p) ==
    IF ~fromSet /\ ~LedgerMinDate(ds).ok THEN <<>>
    ELSE IF ~toSet /\ ~LedgerMaxDate(ds).ok THEN <<>>
    ELSE Series(IF fromSet THEN from ELSE LedgerMinDate(ds).date,
                IF toSet THEN to ELSE LedgerMaxDate(ds).date, p)

\* the last n entries of series s when n > 0
LastN(s, n) ==
    IF n > 0 /\ Len(s) > n THEN SubSeq(s, Len(s) - n + 1, Len(s)) ELSE s

\* mergePositions: the positions of all balances
mergePositions(bals) == UNION {DOMAIN bals[i].Amounts : i \in 1..Len(bals)}

\* buildSegments: one segment per account type that has a position
buildSegments(ps) == {Type(ca.Account) : ca \in ps}

\* NewReport: the dates of the balances, the segments, and the commodities of
\* the totals; the error is always nil
NewReport(ds, bals) ==
    [Dates |-> ds,
     Segments |-> buildSegments(mergePositions(bals)),
     Commodities |-> {ca.Commodity : ca \in mergePositions(bals)}]

NoReport == [Dates |-> <<>>, Segments |-> {}, Commodities |-> {}]

\* configurePipeline on a journal without directives: --to is today when it
\* is not given
EmpInit ==
    \E fromSet \in BOOLEAN : \E from \in 1..MaxDate : \E to \in 1..MaxDate :
    \E period \in Periods : \E last \in 0..MaxLast : \E diff \in BOOLEAN :
        emp = [pc |-> "configured", days |-> <<>>,
               fromSet |-> fromSet, from |-> IF fromSet THEN from ELSE ZeroTime,
               to |-> to, period |-> period, last |-> last, diff |-> diff,
               dates |-> <<>>, bals |-> <<>>, report |-> NoReport, err |-> FALSE]

notEmp == <<val, dif, ord, jrn, ctx, oldVars>>

\* the snapshotter is initialised with the dates of the ledger, cut to the
\* last entries
Initialize ==
    /\ emp.pc = "configured"
    /\ emp' = [emp EXCEPT !.pc = "initialized",
                          !.dates = LastN(LedgerDates(emp.days, emp.fromSet, emp.from,
                                                      TRUE, emp.to, emp.period), emp.last)]
    /\ UNCHANGED notEmp

\* Ledger.Process over no days: one snapshot of the empty balance per date
TakeSnapshots ==
    /\ emp.pc = "initialized"
    /\ emp' = [emp EXCEPT !.pc = "snapshotted",
                          !.bals = [i \in 1..Len(emp.dates) |->
                                        [Amounts |-> EmptyMap, Values |-> EmptyMap]]]
    /\ UNCHANGED notEmp

\* with --diff the snapshots go through Diffs, whose bals[1:] is out of
\* range for a list without elements
Finalize ==
    /\ emp.pc = "snapshotted"
    /\ emp' = IF ~emp.diff THEN [emp EXCEPT !.pc = "finalized"]
              ELSE IF Len(emp.bals) < 1 THEN [emp EXCEPT !.pc = "panic"]
              ELSE [emp EXCEPT !.pc = "finalized", !.bals = Diffs(emp.bals),
                               !.dates = Tail(emp.dates)]
    /\ UNCHANGED notEmp

\* the report is built from the balances
BuildReport ==
    /\ emp.pc = "finalized"
    /\ emp' = [emp EXCEPT !.pc = "done", !.report = NewReport(emp.dates, emp.bals),
                          !.err = FALSE]
    /\ UNCHANGED notEmp

NextEmp ==
    \/ Initialize
    \/ TakeSnapshots
    \/ Finalize
    \/ BuildReport

InitEmp == EmpInit /\ OldIdle /\ ValIdle /\ DifIdle /\ OrdIdle /\ JrnIdle /\ CtxIdle

SpecEmp == InitEmp /\ [][NextEmp]_vars

\* ------------------------------------------------ parseCollapse and shorten
\* a --collapse flag is the text of a level, or the text of a level, a comma
\* and the text of a regex
LevelTexts == {"-1", "0", "1", "2", "x"}

RegexTexts == {"^Assets", "Bank", "("}

CollapseFlags ==
    {<<l>> : l \in LevelTexts} \cup {<<l, ",", r>> : l \in LevelTexts, r \in RegexTexts}

\* the accounts, by their segments (Account.Split)
ShoAccounts ==
    {<<"Assets", "Bank", "Checking">>, <<"Assets", "Cash">>, <<"Expenses", "Bank">>}

\* strings.SplitN(c, ",", 2): the text before the first comma and, when
\* there is a comma, the text after it
SplitN2(c) ==
    IF \E i \in 1..Len(c) : c[i] = ","
    THEN LET i == CHOOSE k \in 1..Len(c) : c[k] = "," /\ \A j \in 1..(k - 1) : c[j] # ","
         IN  <<SubSeq(c, 1, i - 1), SubSeq(c, i + 1, Len(c))>>
    ELSE <<c>>

\* strconv.Atoi
Atoi(t) ==
    CASE t = <<"-1">> -> [n |-> -1, err |-> FALSE]
      [] t = <<"0">> -> [n |-> 0, err |-> FALSE]
      [] t = <<"1">> -> [n |-> 1, err |-> FALSE]
      [] t = <<"2">> -> [n |-> 2, err |-> FALSE]
      [] OTHER -> [n |-> 0, err |-> TRUE]

\* the nil *regexp.Regexp
NilRegex == "nil"

\* regexp.Compile
Compile(t) ==
    IF t \in {<<"^Assets">>, <<"Bank">>} THEN [re |-> t[1], err |-> FALSE]
    ELSE [re |-> NilRegex, err |-> TRUE]

\* Regexp.MatchString on the full name of the account with segments a
MatchString(re, a) ==
    CASE re = "^Assets" -> a[1] = "Assets"
      [] re = "Bank" -> \E i \in 1..Len(a) : a[i] = "Bank"

RECURSIVE parseCollapseFrom(_, _, _)
\* the loop of parseCollapse from flag i on, with res the rules so far
parseCollapseFrom(collapse, i, res) ==
    IF i > Len(collapse) THEN [res |-> res, err |-> FALSE]
    ELSE LET s == SplitN2(collapse[i])
             l == Atoi(s[1])
         IN  IF l.err THEN [res |-> <<>>, err |-> TRUE]
             ELSE IF Len(s) = 2
             THEN IF Compile(s[2]).err THEN [res |-> <<>>, err |-> TRUE]
                  ELSE parseCollapseFrom(collapse, i + 1,
                           Append(res, [Level |-> l.n, Regex |-> Compile(s[2]).re]))
             ELSE parseCollapseFrom(collapse, i + 1,
                      Append(res, [Level |-> l.n, Regex |-> NilRegex]))

parseCollapse(collapse) == parseCollapseFrom(collapse, 1, <<>>)

\* mutant: the regex is not looked at
mustCut_IgnoreMatch(s, level, matched) == Len(s) > level

\* the condition of shorten under which the segments are cut
mustCut(s, level, matched) == matched /\ Len(s) > level

RECURSIVE shortenFrom(_, _, _, _)
\* the loop of shorten from rule i on: MatchString on a nil regex and a slice
\* s[:Level] with a negative Level are runtime failures
shortenFrom(c, i, a, s) ==
    IF i > Len(c) THEN [s |-> s, panic |-> FALSE]
    ELSE IF c[i].Regex = NilRegex THEN [s |-> s, panic |-> TRUE]
    ELSE IF mustCut(s, c[i].Level, MatchString(c[i].Regex, a))
    THEN IF c[i].Level < 0 THEN [s |-> s, panic |-> TRUE]
         ELSE shortenFrom(c, i + 1, a, SubSeq(s, 1, c[i].Level))
    ELSE shortenFrom(c, i + 1, a, s)

\* mutant: rules without a regex are skipped
shorten_SkipNil(c, a) ==
    shortenFrom(SelectSeq(c, LAMBDA r : r.Regex # NilRegex), 1, a, a)

\* shorten: the loop starts with s := a.Split()
shorten(c, a) == shortenFrom(c, 1, a, a)

ShoInit ==
    \E n \in 0..MaxRules : \E fs \in [1..n -> CollapseFlags] : \E a \in ShoAccounts :
        sho = [pc |-> "flags", flags |-> fs, account |-> a, rules |-> <<>>, s |-> <<>>]

notSho == <<seg, snp, bk, register, fp, midVars, baseVars>>

\* configurePipeline calls parseCollapse on the flags
ParseCollapse ==
    /\ sho.pc = "flags"
    /\ LET r == parseCollapse(sho.flags)
       IN  sho' = IF r.err THEN [sho EXCEPT !.pc = "error"]
                  ELSE [sho EXCEPT !.pc = "parsed", !.rules = r.res]
    /\ UNCHANGED notSho

\* buildSegments calls shorten on the account of a position
Shorten ==
    /\ sho.pc = "parsed"
    /\ LET r == shorten(sho.rules, sho.account)
       IN  sho' = IF r.panic THEN [sho EXCEPT !.pc = "panic"]
                  ELSE [sho EXCEPT !.pc = "done", !.s = r.s]
    /\ UNCHANGED notSho

NextSho ==
    \/ ParseCollapse
    \/ Shorten

InitSho == ShoInit /\ BaseIdle /\ MidIdle /\ SegIdle /\ SnpIdle /\ BkIdle /\ RegIdle /\ FpIdle

SpecSho == InitSho /\ [][NextSho]_vars

\* ------------------------------------------------ NewReport with collapsing
\* Account.Split
Split(a) ==
    CASE a = "Assets:Bank" -> <<"Assets", "Bank">>
      [] a = "Income:Salary" -> <<"Income", "Salary">>

SegKeys ==
    {CommodityAccount("Assets:Bank", "USD"), CommodityAccount("Assets:Bank", "CHF"),
     CommodityAccount("Income:Salary", "USD")}

\* the collapse rules of the options
SegRules == [Level : 0..1, Regex : {"^Assets", "Bank"}]

\* mergePositions with the amounts: per position of any balance the vector
\* of its amounts, zero where a balance lacks it (the sort order is left out)
mergePositionsVec(positions) ==
    {[CommodityAccount |-> ca, Amounts |-> [i \in 1..Len(positions) |-> Get(positions[i], ca)]] :
        ca \in UNION {DOMAIN positions[i] : i \in 1..Len(positions)}}

\* the key of a position: its account shortened by the rules
SegmentKey(o, p) == shorten(o, Split(p.CommodityAccount.Account)).s

\* mutant: a position without key is inserted as well
buildSegmentsWith_KeepAll(o, positions) ==
    [at \in {Type(p.CommodityAccount.Account) : p \in positions} |->
        {[key |-> IF Len(SegmentKey(o, p)) > 0 THEN Tail(SegmentKey(o, p)) ELSE <<>>,
          position |-> p] :
            p \in {q \in positions : Type(q.CommodityAccount.Account) = at}}]

\* buildSegments with collapse rules o: per account type the positions
\* inserted under k[1:]; a position with an empty key is inserted nowhere
buildSegmentsWith(o, positions) ==
    LET kept == {p \in positions : Len(SegmentKey(o, p)) > 0}
    IN  [at \in {Type(p.CommodityAccount.Account) : p \in kept} |->
            {[key |-> Tail(SegmentKey(o, p)), position |-> p] :
                p \in {q \in kept : Type(q.CommodityAccount.Account) = at}}]

RECURSIVE SumAt(_, _)
\* the sum of the i-th amounts of the positions ps
SumAt(ps, i) ==
    IF ps = {} THEN 0
    ELSE LET p == CHOOSE q \in ps : TRUE IN p.Amounts[i] + SumAt(ps \ {p}, i)

\* the positions that the segments hold
Inserted(segments) == UNION {{e.position : e \in segments[at]} : at \in DOMAIN segments}

\* Segment.sum of every segment: per commodity the sum of the amount vectors
\* of the positions the segments hold
sumSegments(segments, n) ==
    [c \in {p.CommodityAccount.Commodity : p \in Inserted(segments)} |->
        [i \in 1..n |-> SumAt({p \in Inserted(segments) : p.CommodityAccount.Commodity = c}, i)]]

\* NewReport with collapse rules: the segments, the totals and the
\* commodities of the totals
NewReportWith(options, bals) ==
    LET segments == buildSegmentsWith(options, mergePositionsVec(bals))
    IN  [Segments |-> segments,
         Positions |-> sumSegments(segments, Len(bals)),
         Commodities |-> DOMAIN sumSegments(segments, Len(bals))]

\* the positions of the balances given to NewReport
SegInit ==
    \E n \in 1..2 : \E bals \in [1..n -> PartialMaps(SegKeys, 1..MaxAmount)] :
    \E k \in 0..MaxRules : \E o \in [1..k -> SegRules] :
        seg = [pc |-> "input", options |-> o, bal |-> bals,
               report |-> [Segments |-> EmptyMap, Positions |-> EmptyMap, Commodities |-> {}]]

notSeg == <<sho, snp, bk, register, fp, midVars, baseVars>>

CallNewReport ==
    /\ seg.pc = "input"
    /\ seg' = [seg EXCEPT !.pc = "done", !.report = NewReportWith(seg.options, seg.bal)]
    /\ UNCHANGED notSeg

NextSeg == CallNewReport

InitSeg == SegInit /\ BaseIdle /\ MidIdle /\ ShoIdle /\ SnpIdle /\ BkIdle /\ RegIdle /\ FpIdle

SpecSeg == InitSeg /\ [][NextSeg]_vars

\* --------------------------------------------------------- Balance.Snapshot
\* A balance object holds its date and references to two maps (Amounts,
\* Values) and one Accounts object; snp.maps and snp.sets are the objects.
SnpPostings ==
    {p \in [Credit : AccountNames, Debit : AccountNames, Amount : 1..MaxAmount,
            Commodity : {"USD"}, Value : 1..MaxAmount] :
        p.Credit # p.Debit /\ p.Value = p.Amount}

\* what a balance object holds
Contents(h, x) ==
    [Date |-> x.Date, Amounts |-> h.maps[x.Amounts], Values |-> h.maps[x.Values],
     Accounts |-> h.sets[x.Accounts]]

\* the objects of a balance overwritten with contents c, Amounts first
Store(h, x, c) ==
    [maps |-> [[h.maps EXCEPT ![x.Amounts] = c.Amounts] EXCEPT ![x.Values] = c.Values],
     sets |-> [h.sets EXCEPT ![x.Accounts] = c.Accounts]]

\* balance.New: two new maps and a new Accounts object
NewBalance(h) ==
    [h |-> [maps |-> h.maps \o <<EmptyMap, EmptyMap>>, sets |-> Append(h.sets, {})],
     b |-> [Date |-> ZeroTime, Amounts |-> Len(h.maps) + 1, Values |-> Len(h.maps) + 2,
            Accounts |-> Len(h.sets) + 1]]

\* mutant: the snapshot holds the receiver's Amounts map
Snapshot_SharedAmounts(h, b) ==
    LET n == NewBalance(h)
        nb == [n.b EXCEPT !.Date = b.Date, !.Amounts = b.Amounts]
    IN  [h |-> Store(n.h, nb, Contents(h, b)), b |-> nb]

\* Balance.Snapshot: a new balance with the date of b, the entries of the two
\* maps copied, and Accounts.Copy of the accounts (a new object that is equal)
Snapshot(h, b) ==
    LET n == NewBalance(h)
        nb == [n.b EXCEPT !.Date = b.Date]
    IN  [h |-> Store(n.h, nb, Contents(h, b)), b |-> nb]

\* the operations on the contents c of a balance; o is the other balance
OpBook(c, p) == [c EXCEPT !.Amounts = Book(@, p.Credit, p.Debit, p.Amount, p.Commodity)]

OpBookValue(c, p) == [c EXCEPT !.Values = bookValueFrom(@, <<p>>, 1)]

OpMinus(c, o) == [c EXCEPT !.Amounts = Minus(c, o).Amounts, !.Values = Minus(c, o).Values]

OpOpen(c, a) == [c EXCEPT !.Accounts = @ \cup {a}]

OpClose(c, a) == [c EXCEPT !.Accounts = @ \ {a}]

SnpInit ==
    LET n == NewBalance([maps |-> <<>>, sets |-> <<>>])
        c == Contents(n.h, n.b)
    IN  snp = [pc |-> "new", h |-> n.h, b |-> n.b, nb |-> n.b, ops |-> 0,
               want |-> [b |-> c, nb |-> c], taken |-> c]

notSnp == <<sho, seg, bk, register, fp, midVars, baseVars>>

\* the balances an operation can be called on
Targets == IF snp.pc = "snapshot" THEN {"b", "nb"} ELSE {"b"}

Other(x) == IF x = "b" THEN "nb" ELSE "b"

SnpInBounds(c) == InBounds(c.Amounts) /\ InBounds(c.Values)

\* the state after an operation took the contents of balance x to c, where
\* the contents wanted of x become w
After(x, c, w) ==
    [snp EXCEPT !.h = Store(snp.h, snp[x], c), !.ops = @ + 1, !.want[x] = w]

SnpBook(x, p) ==
    /\ snp.pc # "idle"
    /\ snp.ops < MaxSnpOps
    /\ x \in Targets
    /\ SnpInBounds(OpBook(snp.want[x], p))
    /\ snp' = After(x, OpBook(Contents(snp.h, snp[x]), p), OpBook(snp.want[x], p))
    /\ UNCHANGED notSnp

SnpBookValue(x, p) ==
    /\ snp.pc # "idle"
    /\ snp.ops < MaxSnpOps
    /\ x \in Targets
    /\ SnpInBounds(OpBookValue(snp.want[x], p))
    /\ snp' = After(x, OpBookValue(Contents(snp.h, snp[x]), p), OpBookValue(snp.want[x], p))
    /\ UNCHANGED notSnp

\* Minus of the other balance
SnpMinus(x) ==
    /\ snp.pc = "snapshot"
    /\ snp.ops < MaxSnpOps
    /\ x \in Targets
    /\ SnpInBounds(OpMinus(snp.want[x], snp.want[Other(x)]))
    /\ snp' = After(x, OpMinus(Contents(snp.h, snp[x]), Contents(snp.h, snp[Other(x)])),
                    OpMinus(snp.want[x], snp.want[Other(x)]))
    /\ UNCHANGED notSnp

SnpOpen(x, a) ==
    /\ snp.pc # "idle"
    /\ snp.ops < MaxSnpOps
    /\ x \in Targets
    /\ a \notin snp.want[x].Accounts
    /\ snp' = After(x, OpOpen(Contents(snp.h, snp[x]), a), OpOpen(snp.want[x], a))
    /\ UNCHANGED notSnp

SnpClose(x, a) ==
    /\ snp.pc # "idle"
    /\ snp.ops < MaxSnpOps
    /\ x \in Targets
    /\ a \in snp.want[x].Accounts
    /\ snp' = After(x, OpClose(Contents(snp.h, snp[x]), a), OpClose(snp.want[x], a))
    /\ UNCHANGED notSnp

\* the DateUpdater sets the date of the receiver
SnpSetDate(d) ==
    /\ snp.pc = "new"
    /\ snp.b.Date = ZeroTime
    /\ snp' = [snp EXCEPT !.b.Date = d, !.want.b.Date = d]
    /\ UNCHANGED notSnp

\* a call of Snapshot on the receiver
CallSnapshot ==
    /\ snp.pc = "new"
    /\ LET r == Snapshot(snp.h, snp.b)
       IN  snp' = [snp EXCEPT !.pc = "snapshot", !.h = r.h, !.nb = r.b,
                              !.want.nb = snp.want.b, !.taken = snp.want.b]
    /\ UNCHANGED notSnp

NextSnp ==
    \/ \E x \in {"b", "nb"} : \E p \in SnpPostings : SnpBook(x, p)
    \/ \E x \in {"b", "nb"} : \E p \in SnpPostings : SnpBookValue(x, p)
    \/ \E x \in {"b", "nb"} : SnpMinus(x)
    \/ \E x \in {"b", "nb"} : \E a \in AccountNames : SnpOpen(x, a)
    \/ \E x \in {"b", "nb"} : \E a \in AccountNames : SnpClose(x, a)
    \/ \E d \in 1..MaxDate : SnpSetDate(d)
    \/ CallSnapshot

InitSnp == SnpInit /\ BaseIdle /\ MidIdle /\ ShoIdle /\ SegIdle /\ BkIdle /\ RegIdle /\ FpIdle

SpecSnp == InitSnp /\ [][NextSnp]_vars

\* ------------------------------------------- Balance.BookAmount, one call
BkAccounts == {"Assets:Bank", "Income:Salary", "Expenses:Rent"}

BkPostings ==
    {p \in [Credit : BkAccounts, Debit : BkAccounts, Amount : 1..MaxAmount, Commodity : {"USD"}] :
        p.Credit # p.Debit}

\* the amounts before the call: none, or one of every account
BkAmounts == {EmptyMap, [k \in {CommodityAccount(a, "USD") : a \in BkAccounts} |-> 0]}

\* a balance with at least two open accounts and a transaction
BkInit ==
    \E amts \in BkAmounts : \E accts \in SUBSET BkAccounts :
    \E n \in 1..MaxBkPostings : \E ps \in [1..n -> BkPostings] :
        /\ Cardinality(accts) >= 2
        /\ bk = [pc |-> "call", before |-> amts, Accounts |-> accts,
                 t |-> [Range |-> "j:1", Postings |-> ps],
                 Amounts |-> amts, err |-> NoErr]

notBk == <<sho, seg, snp, register, fp, midVars, baseVars>>

\* the call of BookAmount
CallBookAmount ==
    /\ bk.pc = "call"
    /\ LET r == BookAmount(bk.Amounts, bk.Accounts, bk.t)
       IN  bk' = [bk EXCEPT !.pc = "returned", !.Amounts = r.Amounts, !.err = r.err]
    /\ UNCHANGED notBk

NextBk == CallBookAmount

InitBk == BkInit /\ BaseIdle /\ MidIdle /\ ShoIdle /\ SegIdle /\ SnpIdle /\ RegIdle /\ FpIdle

SpecBk == InitBk /\ [][NextBk]_vars

\* ------------------------------------------------------------- Register.Add
\* A regexp of a filter is given by the names it matches; NoRegexp is nil.
NoRegexp == [nil |-> TRUE, matches |-> {}]

Regexp(names) == [nil |-> FALSE, matches |-> names]

\* Filter.MatchAccount
MatchAccount(f, a) == f.AccountsFilter.nil \/ a \in f.AccountsFilter.matches

\* Filter.MatchCommodity
MatchCommodity(f, c) == f.CommoditiesFilter.nil \/ c \in f.CommoditiesFilter.matches

RegPostings ==
    {b \in [Credit : AccountNames, Debit : AccountNames, Amount : {1}, Commodity : Commodities,
            Value : {2}] : b.Credit # b.Debit}

\* the days given to Add: one transaction of one or two postings
RegDays(n) ==
    [Date : {n}, Transactions : {<<ps>> : ps \in SeqsUpTo(RegPostings, 2)}]

\* mutant: a posting inside the InFilter is not skipped
addPosting_NoSkip(r, acc, b) ==
    IF ~MatchCommodity(r.InFilter, b.Commodity) \/ ~MatchCommodity(r.OutFilter, b.Commodity)
    THEN acc
    ELSE LET inCr == MatchAccount(r.InFilter, b.Credit)
             inDr == MatchAccount(r.InFilter, b.Debit)
             dr == CommodityAccount(b.Debit, b.Commodity)
             cr == CommodityAccount(b.Credit, b.Commodity)
             a1 == IF inCr /\ MatchAccount(r.OutFilter, b.Debit)
                   THEN [amts |-> Put(acc.amts, dr, Get(acc.amts, dr) - b.Amount),
                         vals |-> Put(acc.vals, dr, Get(acc.vals, dr) - b.Value)]
                   ELSE acc
         IN  IF inDr /\ MatchAccount(r.OutFilter, b.Credit)
             THEN [amts |-> Put(a1.amts, cr, Get(a1.amts, cr) + b.Amount),
                   vals |-> Put(a1.vals, cr, Get(a1.vals, cr) + b.Value)]
             ELSE a1

\* the body of the inner loop of Add for posting b, on acc = [amts, vals]
addPosting(r, acc, b) ==
    IF ~MatchCommodity(r.InFilter, b.Commodity) \/ ~MatchCommodity(r.OutFilter, b.Commodity)
    THEN acc
    ELSE LET inCr == MatchAccount(r.InFilter, b.Credit)
             inDr == MatchAccount(r.InFilter, b.Debit)
             dr == CommodityAccount(b.Debit, b.Commodity)
             cr == CommodityAccount(b.Credit, b.Commodity)
             a1 == IF inCr /\ MatchAccount(r.OutFilter, b.Debit)
                   THEN [amts |-> Put(acc.amts, dr, Get(acc.amts, dr) - b.Amount),
                         vals |-> Put(acc.vals, dr, Get(acc.vals, dr) - b.Value)]
                   ELSE acc
         IN  IF inCr /\ inDr THEN acc
             ELSE IF inDr /\ MatchAccount(r.OutFilter, b.Credit)
             THEN [amts |-> Put(a1.amts, cr, Get(a1.amts, cr) + b.Amount),
                   vals |-> Put(a1.vals, cr, Get(a1.vals, cr) + b.Value)]
             ELSE a1

RECURSIVE addPostings(_, _, _, _)
\* the inner loop of Add over the postings ps from index i
addPostings(r, acc, ps, i) ==
    IF i > Len(ps) THEN acc ELSE addPostings(r, addPosting(r, acc, ps[i]), ps, i + 1)

RECURSIVE addTransactions(_, _, _, _)
\* the outer loop of Add over the transactions ts from index i
addTransactions(r, acc, ts, i) ==
    IF i > Len(ts) THEN acc
    ELSE addTransactions(r, addPostings(r, acc, ts[i], 1), ts, i + 1)

\* Register.Add: the section of day d is appended
Add(r, d) ==
    LET acc == addTransactions(r, [amts |-> EmptyMap, vals |-> EmptyMap], d.Transactions, 1)
    IN  [r EXCEPT !.sections = Append(@, [date |-> d.Date, values |-> acc.vals,
                                          amounts |-> acc.amts])]

RegInit ==
    \E ia \in {NoRegexp, Regexp({"Assets:Bank"}), Regexp({"Income:Salary"})} :
    \E oa \in {NoRegexp, Regexp({"Income:Salary"})} :
    \E ic \in {NoRegexp, Regexp({"USD"})} : \E oc \in {NoRegexp, Regexp({"USD"})} :
        register = [pc |-> "open",
                    InFilter |-> [AccountsFilter |-> ia, CommoditiesFilter |-> ic],
                    OutFilter |-> [AccountsFilter |-> oa, CommoditiesFilter |-> oc],
                    sections |-> <<>>, added |-> <<>>]

notReg == <<sho, seg, snp, bk, fp, midVars, baseVars>>

\* a call of Add with the next day
CallAdd(d) ==
    /\ register.pc = "open"
    /\ Len(register.added) < MaxDays
    /\ register' = [Add(register, d) EXCEPT !.added = Append(@, d)]
    /\ UNCHANGED notReg

NextReg == \E d \in RegDays(Len(register.added) + 1) : CallAdd(d)

InitReg == RegInit /\ BaseIdle /\ MidIdle /\ ShoIdle /\ SegIdle /\ SnpIdle /\ BkIdle /\ FpIdle

SpecReg == InitReg /\ [][NextReg]_vars

\* ----------------------------------------------------------------- FromPath
MaxBatches == 2

\* the directive types Create knows, and one it does not
KnownTypes == {"Open", "Transaction"}

DirectiveTypes == KnownTypes \cup {"Unknown"}

\* a batch of the stream: one directive, or an Open and one directive
Batches == {<<t>> : t \in DirectiveTypes} \cup {<<"Open", t>> : t \in DirectiveTypes}

Streams == {<<>>} \cup SeqsUpTo(Batches, MaxBatches)

\* a channel of a worker: its queue and whether it is closed
NewChan == [queue |-> <<>>, closed |-> FALSE]

\* cpr.Push can send on channel c without blocking
CanPush(c) == Len(c.queue) < ChanCap

PushTo(c, x) == [c EXCEPT !.queue = Append(@, x)]

PopFrom(c) == [c EXCEPT !.queue = Tail(@)]

CloseChan(c) == [c EXCEPT !.closed = TRUE]

RECURSIVE consumeFrom(_, _, _)
\* the loop of the callback of Create over batch from index i: a directive of
\* a known type is added to the journal, any other ends the loop with an error
consumeFrom(jn, batch, i) ==
    IF i > Len(batch) THEN [j |-> jn, err |-> "nil"]
    ELSE IF batch[i] \in KnownTypes THEN consumeFrom(Append(jn, batch[i]), batch, i + 1)
    ELSE [j |-> jn, err |-> "unknown"]

\* mutant: a directive of unknown type is skipped
consume_SkipUnknown(jn, batch) ==
    [j |-> jn \o SelectSeq(batch, LAMBDA t : t \in KnownTypes), err |-> "nil"]

\* the callback Create hands to cpr.Consume
consume(jn, batch) == consumeFrom(jn, batch, 1)

\* the pool: a worker returns e; the first error is kept and cancels the context
WorkerReturned(f, worker, e) ==
    [f EXCEPT !.w[worker] = IF e = "nil" THEN "nil" ELSE "err",
              !.errs = IF e = "nil" THEN @ ELSE Append(@, e),
              !.ctxDone = @ \/ e # "nil"]

FpInit ==
    \E s \in Streams :
        fp = [pc |-> "wait", stream |-> s, todo |-> s,
              syntaxCh |-> NewChan, modelCh |-> NewChan, journalCh |-> NewChan,
              w |-> [worker \in 1..3 |-> "run"], hold |-> <<>>, j |-> <<>>,
              ctxDone |-> FALSE, errs |-> <<>>,
              result |-> [journal |-> <<>>, err |-> "nil"]]

notFp == <<sho, seg, snp, bk, register, midVars, baseVars>>

Running(worker) == fp.pc # "idle" /\ fp.w[worker] = "run"

\* worker1, the parser, pushes the next batch
ParserPush ==
    /\ Running(1) /\ fp.todo # <<>> /\ CanPush(fp.syntaxCh)
    /\ fp' = [fp EXCEPT !.syntaxCh = PushTo(@, Head(fp.todo)), !.todo = Tail(@)]
    /\ UNCHANGED notFp

\* worker1 fails on the next batch
ParserFail ==
    /\ Running(1) /\ fp.todo # <<>>
    /\ fp' = WorkerReturned([fp EXCEPT !.syntaxCh = CloseChan(@)], 1, "parse")
    /\ UNCHANGED notFp

\* worker1 has reached the end of the input
ParserDone ==
    /\ Running(1) /\ fp.todo = <<>>
    /\ fp' = WorkerReturned([fp EXCEPT !.syntaxCh = CloseChan(@)], 1, "nil")
    /\ UNCHANGED notFp

\* worker2, model.FromStream, takes a batch
ModelPop ==
    /\ Running(2) /\ fp.hold = <<>> /\ fp.syntaxCh.queue # <<>>
    /\ fp' = [fp EXCEPT !.hold = <<Head(fp.syntaxCh.queue)>>, !.syntaxCh = PopFrom(@)]
    /\ UNCHANGED notFp

\* worker2 fails on the batch it holds
ModelFail ==
    /\ Running(2) /\ fp.hold # <<>>
    /\ fp' = WorkerReturned([fp EXCEPT !.modelCh = CloseChan(@)], 2, "model")
    /\ UNCHANGED notFp

\* worker2 pushes the batch it holds
ModelPush ==
    /\ Running(2) /\ fp.hold # <<>> /\ CanPush(fp.modelCh)
    /\ fp' = [fp EXCEPT !.modelCh = PushTo(@, fp.hold[1]), !.hold = <<>>]
    /\ UNCHANGED notFp

\* worker2 finds its input closed
ModelDone ==
    /\ Running(2) /\ fp.hold = <<>> /\ fp.syntaxCh.queue = <<>> /\ fp.syntaxCh.closed
    /\ fp' = WorkerReturned([fp EXCEPT !.modelCh = CloseChan(@)], 2, "nil")
    /\ UNCHANGED notFp

\* worker3, Create: cpr.Consume takes a batch and runs the callback on it
CreateConsume ==
    /\ Running(3) /\ fp.modelCh.queue # <<>>
    /\ LET c == consume(fp.j, Head(fp.modelCh.queue))
       IN  fp' = IF c.err = "nil"
                 THEN [fp EXCEPT !.j = c.j, !.modelCh = PopFrom(@)]
                 ELSE WorkerReturned([fp EXCEPT !.modelCh = PopFrom(@),
                                          !.journalCh = CloseChan(@)], 3, c.err)
    /\ UNCHANGED notFp

\* worker3: cpr.Consume found the input closed, cpr.Push hands the journal over
CreatePush ==
    /\ Running(3) /\ fp.modelCh.queue = <<>> /\ fp.modelCh.closed
    /\ CanPush(fp.journalCh)
    /\ fp' = WorkerReturned([fp EXCEPT !.journalCh = CloseChan(PushTo(@, fp.j))], 3, "nil")
    /\ UNCHANGED notFp

\* the channel a worker closes when it returns
Closing(f, worker) ==
    CASE worker = 1 -> [f EXCEPT !.syntaxCh = CloseChan(@)]
      [] worker = 2 -> [f EXCEPT !.modelCh = CloseChan(@)]
      [] worker = 3 -> [f EXCEPT !.journalCh = CloseChan(@)]

\* a worker waiting in cpr.Push or cpr.Pop sees the context done
Cancelled(worker) ==
    /\ Running(worker) /\ fp.ctxDone
    /\ worker = 1 => fp.todo # <<>>
    /\ fp' = WorkerReturned(Closing(fp, worker), worker, "canceled")
    /\ UNCHANGED notFp

\* the caller cancels the context given to FromPath
CancelCtx ==
    /\ fp.pc = "wait" /\ ~fp.ctxDone
    /\ fp' = [fp EXCEPT !.ctxDone = TRUE]
    /\ UNCHANGED notFp

\* p.Wait returns once every worker has returned
Wait ==
    /\ fp.pc = "wait" /\ \A worker \in 1..3 : fp.w[worker] # "run"
    /\ fp' = IF fp.errs # <<>>
             THEN [fp EXCEPT !.pc = "returned",
                             !.result = [journal |-> <<>>, err |-> fp.errs[1]]]
             ELSE [fp EXCEPT !.pc = "receive"]
    /\ UNCHANGED notFp

\* return <-journalCh, nil
Receive ==
    /\ fp.pc = "receive"
    /\ \/ /\ fp.journalCh.queue # <<>>
          /\ fp' = [fp EXCEPT !.pc = "returned", !.journalCh = PopFrom(@),
                              !.result = [journal |-> <<Head(fp.journalCh.queue)>>,
                                          err |-> "nil"]]
       \/ /\ fp.journalCh.queue = <<>> /\ fp.journalCh.closed
          /\ fp' = [fp EXCEPT !.pc = "returned"]
    /\ UNCHANGED notFp

Workers ==
    \/ ParserPush \/ ParserFail \/ ParserDone
    \/ ModelPop \/ ModelFail \/ ModelPush \/ ModelDone
    \/ CreateConsume \/ CreatePush
    \/ \E worker \in 1..3 : Cancelled(worker)

NextFp == Workers \/ CancelCtx \/ Wait \/ Receive

InitFp == FpInit /\ BaseIdle /\ MidIdle /\ ShoIdle /\ SegIdle /\ SnpIdle /\ BkIdle /\ RegIdle

SpecFp == InitFp /\ [][NextFp]_vars

\* every goroutine that can take a step eventually takes one; a failure of
\* the parser or of the model stage and a cancellation by the caller are not
\* forced to happen
FairFp ==
    /\ WF_vars(ParserPush) /\ WF_vars(ParserDone)
    /\ WF_vars(ModelPop) /\ WF_vars(ModelPush) /\ WF_vars(ModelDone)
    /\ WF_vars(CreateConsume) /\ WF_vars(CreatePush)
    /\ WF_vars(\E worker \in 1..3 : Cancelled(worker))
    /\ WF_vars(Wait) /\ WF_vars(Receive)

SpecFpFair == InitFp /\ [][NextFp]_vars /\ FairFp

\* ------------------------------------------------------------------ claims
RECURSIVE SumOver(_, _)
SumOver(f, S) ==
    IF S = {} THEN 0
    ELSE LET x == CHOOSE y \in S : TRUE IN f[x] + SumOver(f, S \ {x})

CommoditySum(amts, c) ==
    SumOver(amts, {k \in DOMAIN amts : k.Commodity = c})

\* C1: starting from an empty balance, after any sequence of Book and
\* BookAmount calls (failed ones included) the amounts of every commodity
\* sum to zero over all accounts.
C1_SumZero == \A c \in Commodities : CommoditySum(Amounts, c) = 0

C1_Witness ==
    /\ ret.op = "BookAmount"
    /\ ret.err # NoErr
    /\ \E k \in DOMAIN Amounts : Amounts[k] # 0

\* C2: BookAmount returns an error naming the transaction whenever one of
\* its postings has a credit or debit account that is not open, and only the
\* postings whose two accounts were open when they were reached are booked.
C2_NotOpenError ==
    ret.op = "BookAmount" =>
        /\ ref.notOpen => (ret.err # NoErr /\ ret.err.directive = ret.directive)
        /\ Amounts = ref.Amounts

C2_Witness ==
    /\ ret.op = "BookAmount"
    /\ ref.notOpen
    /\ ret.err # NoErr
    /\ ret.err.msg[1] = "debit account"
    /\ ret.directive = "j:2"

\* C8: NewPosting returns a posting with a non-negative amount; for a negative
\* amount the accounts are swapped and the amount negated, and booking the
\* posting changes Amounts exactly as booking the raw triple does.
C8_NewPostingNormalised ==
    ret.op = "NewPosting" =>
        /\ ret.posting.Amount >= 0
        /\ ret.posting.Commodity = ref.raw.Commodity
        /\ ref.raw.Amount < 0 =>
               /\ ret.posting.Credit = ref.raw.Debit
               /\ ret.posting.Debit = ref.raw.Credit
               /\ ret.posting.Amount = -ref.raw.Amount
        /\ ref.raw.Amount >= 0 =>
               /\ ret.posting.Credit = ref.raw.Credit
               /\ ret.posting.Debit = ref.raw.Debit
               /\ ret.posting.Amount = ref.raw.Amount
        /\ Amounts = ref.Amounts

C8_Witness ==
    /\ ret.op = "NewPosting"
    /\ ref.raw.Amount < 0
    /\ ref.raw.Credit # ref.raw.Debit
    /\ \E k \in DOMAIN Amounts : Amounts[k] # 0

\* the credit/debit effect of a list of transactions on position k
RECURSIVE PostingsEffect(_, _, _)
PostingsEffect(ps, k, n) ==
    IF n = 0 THEN 0
    ELSE PostingsEffect(ps, k, n - 1)
         + (IF ps[n].Commodity = k.Commodity /\ ps[n].Debit = k.Account THEN ps[n].Amount ELSE 0)
         - (IF ps[n].Commodity = k.Commodity /\ ps[n].Credit = k.Account THEN ps[n].Amount ELSE 0)

RECURSIVE Effect(_, _, _)
Effect(ts, k, n) ==
    IF n = 0 THEN 0
    ELSE Effect(ts, k, n - 1) + PostingsEffect(ts[n].Postings, k, Len(ts[n].Postings))

\* the positions the transactions post to
Touched(ts) ==
    {k \in Positions : \E i \in 1..Len(ts) : \E j \in 1..Len(ts[i].Postings) :
        /\ ts[i].Postings[j].Commodity = k.Commodity
        /\ k.Account \in {ts[i].Postings[j].Credit, ts[i].Postings[j].Debit}}

AmountsBefore(i) == IF i = 1 THEN EmptyMap ELSE heap[out[i - 1].Amounts]

\* C3: every day the Balancer passes on carries the previous day's amounts
\* (empty before the first day) plus the credit/debit effect of its own
\* transactions; earlier positions stay present, the amounts of an earlier day
\* stay as they were whatever is processed later, and the directives of the
\* day are the ones handed in.
C3_DayAmounts ==
    \A i \in 1..Len(out) :
        LET cur == heap[out[i].Amounts]
            prev == AmountsBefore(i)
        IN  /\ Directives(out[i]) = Directives(days[i])
            /\ DOMAIN cur = (DOMAIN prev) \cup Touched(days[i].Transactions)
            /\ \A k \in DOMAIN cur :
                   cur[k] = Get(prev, k) + Effect(days[i].Transactions, k, Len(days[i].Transactions))

C3_Witness ==
    /\ Len(out) = 2
    /\ days[2].Transactions # <<>>
    /\ \E k \in DOMAIN heap[out[1].Amounts] :
          /\ heap[out[1].Amounts][k] # 0
          /\ k \notin Touched(days[2].Transactions)
          /\ heap[out[2].Amounts][k] = heap[out[1].Amounts][k]
    /\ heap[out[2].Amounts] # heap[out[1].Amounts]

\* the accounts the day's transactions can post to: those open when the day
\* began and those the day opens (the day's closings come later)
OpenForDay == dayStart.Accounts \cup {day.Openings[i] : i \in 1..Len(day.Openings)}

PostingNotOpen(e) == e.directive \in Ranges

\* C4: within a day the steps run in the order openings, transactions,
\* assertions, closings: a transaction of the day fails as not open exactly
\* when it posts to an account that was neither open when the day began nor
\* opened by the day (an account the day closes can still be posted to), and
\* an assertion fails exactly when it differs from the amount at the start of
\* the day plus the effect of the day's transactions.
C4_StepOrder ==
    LET ran == dayStart.done IN
    /\ "TransactionBooker" \in ran => "AccountOpener" \in ran
    /\ "Asserter" \in ran => "TransactionBooker" \in ran
    /\ "AccountCloser" \in ran => "Asserter" \in ran
    /\ "TransactionBooker" \in ran =>
           (PostingNotOpen(bal.err) <=>
               \E i \in 1..Len(day.Transactions) :
                   \E j \in 1..Len(day.Transactions[i].Postings) :
                       ~BothOpen(OpenForDay, day.Transactions[i].Postings[j]))
    /\ "Asserter" \in ran =>
           (bal.err.directive = "balance" <=>
               \E i \in 1..Len(day.Assertions) :
                   LET a == day.Assertions[i]
                       k == CommodityAccount(a.Account, a.Commodity)
                   IN  Get(dayStart.Amounts, k)
                         + Effect(day.Transactions, k, Len(day.Transactions)) # a.Amount)

\* the second day ends without an error: the first day posted to accounts it
\* had opened itself, the assertion of the second day holds only with the
\* day's transaction counted, and the account the day closes was posted to
C4_Witness ==
    /\ stepIdx > Len(stepList)
    /\ ~Failed(bal)
    /\ day.Date = 2
    /\ \E k \in DOMAIN dayStart.Amounts : dayStart.Amounts[k] # 0
    /\ day.Closings = <<"Income:Salary">>
    /\ day.Assertions # <<>>
    /\ day.Assertions[1].Amount # Get(dayStart.Amounts, CommodityAccount("Assets:Bank", "USD"))
    /\ day.Transactions # <<>>
    /\ day.Transactions[1].Postings[1].Credit = "Income:Salary"

\* C5: once the select loop has received an error from a stage, execute has
\* returned that one error, the context is cancelled and nothing is rendered;
\* the report is rendered only with the three channels closed and no error
\* received.
C5_ErrorStopsPipeline ==
    /\ received # <<>> =>
           /\ Len(received) = 1
           /\ pc = "returned"
           /\ retErr = received[1]
           /\ cancelled
    /\ pc = "returned" => retErr # None /\ received # <<>>
    /\ pc = "rendered" =>
           /\ received = <<>>
           /\ retErr = None
           /\ live = {}
           /\ \A c \in Chans : chans[c].closed

C5_Witness ==
    /\ pc = "returned"
    /\ retErr = "err3"
    /\ Len(raised) = 2
    /\ rep # <<>>

\* C6 as claimed: the error execute returns is the one raised first.
C6_FirstRaisedReported == pc = "returned" => retErr = raised[1]

\* C6: the error execute returns is the first one the select loop received,
\* it is one of the raised errors, and no other error is ever received.
C6_FirstReceivedReported ==
    pc = "returned" =>
        /\ retErr = received[1]
        /\ \E i \in 1..Len(raised) : raised[i] = retErr
        /\ \A i \in 1..Len(raised) : raised[i] # retErr =>
               \A j \in 1..Len(received) : received[j] # raised[i]

C6_Witness ==
    /\ pc = "returned"
    /\ Len(raised) = 2
    /\ retErr = raised[2]

IsPrefix(s, t) == Len(s) =< Len(t) /\ \A i \in 1..Len(s) : s[i] = t[i]

Ascending(s) == \A i, k \in 1..Len(s) : i < k => s[i] < s[k]

RECURSIVE PostingSum(_, _)
\* the sum of the amounts of the first n postings of ps
PostingSum(ps, n) == IF n = 0 THEN 0 ELSE PostingSum(ps, n - 1) + ps[n].Amount

RECURSIVE SumAmounts(_, _)
\* the sum of the posting amounts of the first n transactions of ts
SumAmounts(ts, n) ==
    IF n = 0 THEN 0
    ELSE SumAmounts(ts, n - 1) + PostingSum(ts[n].Postings, Len(ts[n].Postings))

IsMulti(tx) == tx.Description.accrual # <<>>

IsSingle(tx) == tx.Description.accrual = <<>>

MultiLeg == SelectSeq(expanded, IsMulti)

SingleLeg == SelectSeq(expanded, IsSingle)

TemplateAmount == accrual.Transaction.Postings[1].Amount

\* C9 as claimed: the amounts of all transactions Expand returns sum to the
\* template amount.
C9_SumEqualsTemplate ==
    apc = "expanded" => SumAmounts(expanded, Len(expanded)) = TemplateAmount

\* C9: each leg Expand emits carries the template amount exactly: the amounts
\* of the multi-period transactions sum to it, the single-period transaction
\* carries it, and the total is the template amount once per emitted leg.
C9_SumPerLeg ==
    apc = "expanded" =>
        /\ MultiLeg # <<>> => SumAmounts(MultiLeg, Len(MultiLeg)) = TemplateAmount
        /\ Len(SingleLeg) =< 1
        /\ SingleLeg # <<>> => SingleLeg[1].Postings[1].Amount = TemplateAmount
        /\ SumAmounts(expanded, Len(expanded)) =
               TemplateAmount * ((IF MultiLeg # <<>> THEN 1 ELSE 0)
                                   + (IF SingleLeg # <<>> THEN 1 ELSE 0))

C9_Witness ==
    /\ apc = "expanded"
    /\ Len(MultiLeg) = 2
    /\ Len(SingleLeg) = 1
    /\ MultiLeg[2].Postings[1].Amount > 0
    /\ MultiLeg[1].Postings[1].Amount > MultiLeg[2].Postings[1].Amount

\* C10: when Expand emits the multi-period leg, N >= 1 is the length of the
\* series without its first date, there is one transaction per such date,
\* dated on it, the first carries q + r and the others q, where q is the
\* quotient to one decimal place and r the remainder of the template amount
\* divided by N, and the amounts sum to the template amount.
C10_MultiLegAmounts ==
    apc = "expanded" /\ MultiLeg # <<>> =>
        LET series == Series(accrual.T0, accrual.T1, accrual.Period)
            N == Len(series) - 1
            A == TemplateAmount
        IN  /\ N >= 1
            /\ Len(MultiLeg) = N
            /\ \A i \in 1..N : MultiLeg[i].Date = series[i + 1]
            /\ \E q \in 0..A : \E r \in 0..A :
                   /\ A = N * q + r
                   /\ q % 10 = 0
                   /\ r < N * 10
                   /\ \A i \in 1..N :
                          MultiLeg[i].Postings[1].Amount = IF i = 1 THEN q + r ELSE q
            /\ SumAmounts(MultiLeg, N) = A

C10_Witness ==
    /\ apc = "expanded"
    /\ Len(MultiLeg) = 3
    /\ accrual.Period = "Days"
    /\ MultiLeg[1].Date = accrual.T0
    /\ MultiLeg[3].Postings[1].Amount = 10
    /\ MultiLeg[1].Postings[1].Amount = 15

TemplateCredit == accrual.Transaction.Postings[1].Credit

TemplateDebit == accrual.Transaction.Postings[1].Debit

\* the (credit, debit) pairs of the postings of the transactions of leg
LegPairs(leg) == {<<leg[i].Postings[1].Credit, leg[i].Postings[1].Debit>> : i \in 1..Len(leg)}

\* the leg from cr to dr, none when the two are the same account
LegOf(cr, dr) == IF cr = dr THEN {} ELSE {<<cr, dr>>}

\* C11: with template credit C, debit D and split account S, C asset or
\* liability with D income or expense gives the single leg C->S and the
\* multi-period leg S->D; C income or expense with D asset or liability gives
\* the multi-period leg C->S and the single leg S->D; both income or expense
\* gives only the multi-period leg C->D; anything else gives only the single
\* leg C->D; a leg from an account to itself is not emitted.
C11_Legs ==
    apc = "expanded" =>
        LET C == TemplateCredit
            D == TemplateDebit
            S == accrual.Account
            al(a) == Type(a) \in {"ASSETS", "LIABILITIES"}
            ie(a) == Type(a) \in {"INCOME", "EXPENSES"}
        IN  /\ al(C) /\ ie(D) =>
                   LegPairs(SingleLeg) = LegOf(C, S) /\ LegPairs(MultiLeg) = LegOf(S, D)
            /\ ie(C) /\ al(D) =>
                   LegPairs(MultiLeg) = LegOf(C, S) /\ LegPairs(SingleLeg) = LegOf(S, D)
            /\ ie(C) /\ ie(D) =>
                   LegPairs(MultiLeg) = LegOf(C, D) /\ LegPairs(SingleLeg) = {}
            /\ ~(al(C) /\ ie(D)) /\ ~(ie(C) /\ al(D)) /\ ~(ie(C) /\ ie(D)) =>
                   LegPairs(SingleLeg) = LegOf(C, D) /\ LegPairs(MultiLeg) = {}
            /\ \A pr \in LegPairs(expanded) : pr[1] # pr[2]

C11_Witness ==
    /\ apc = "expanded"
    /\ TemplateCredit = "Income:Salary"
    /\ TemplateDebit = "Liabilities:Card"
    /\ accrual.Account = "Equity:Equity"
    /\ Len(MultiLeg) = 2
    /\ Len(SingleLeg) = 1

\* the rent accrual over the twelve months of 2024 with split account
\* Expenses:Rent
IsRentAccrual ==
    /\ accrual.T1 = MonthEnds[12]
    /\ accrual.Period = "Months"
    /\ accrual.Account = "Expenses:Rent"
    /\ TemplateCredit = "Expenses:Rent"
    /\ TemplateDebit = "Assets:Bank"
    /\ TemplateAmount = 120000

\* C12 as claimed: the rent accrual expands to twelve transactions of 100.00
\* on the month ends and one transaction of 1200.00 on 2024-01-01.
C12_RentTwelveMonths ==
    apc = "expanded" /\ IsRentAccrual =>
        /\ Len(MultiLeg) = 12
        /\ \A i \in 1..Len(MultiLeg) :
               MultiLeg[i].Date = MonthEnds[i] /\ MultiLeg[i].Postings[1].Amount = 10000
        /\ Len(SingleLeg) = 1
        /\ SingleLeg[1].Date = 0
        /\ SingleLeg[1].Postings[1].Amount = 120000

\* C12: the rent accrual expands to exactly one transaction, the single leg
\* of 1200.00 USD on 2024-01-01 from Expenses:Rent to Assets:Bank; the
\* multi-period leg would run from Expenses:Rent to Expenses:Rent and is not
\* emitted.
C12_RentSingleLegOnly ==
    apc = "expanded" /\ IsRentAccrual =>
        expanded = <<[Range |-> accrual.Transaction.Range,
                      Date |-> 0,
                      Description |-> accrual.Transaction.Description,
                      Postings |-> <<[Credit |-> "Expenses:Rent", Debit |-> "Assets:Bank",
                                      Commodity |-> "USD", Amount |-> 120000]>>]>>

C12_Witness == apc = "expanded" /\ IsRentAccrual /\ Len(expanded) = 1

\* C13: with a valuation commodity, after the valuator has run on a day (and
\* after any re-run) the values of all positions sum to zero, whatever the
\* prices were.
C13_ValuesSumZero ==
    val.pc \in {"valued", "revalued", "readjusted"} =>
        SumOver(val.Values, DOMAIN val.Values) = 0

C13_Witness ==
    /\ val.pc = "valued"
    /\ val.n = 2
    /\ val.day.Adjustments # <<>>
    /\ val.day.Transactions # <<>>
    /\ val.price = MaxPrice
    /\ Get(val.Amounts, CommodityAccount("Assets:Bank", "CHF")) > 0
    /\ Get(val.Values, CommodityAccount("Assets:Bank", "CHF")) > Get(val.Amounts, CommodityAccount("Assets:Bank", "CHF"))

\* C14 as claimed: a second run of the valuator on a valued day changes
\* neither the values nor the day (postings and valuation transactions).
C14_RevaluationNoOp ==
    val.pc = "revalued" => val.Values = val.prev.Values /\ val.day = val.prev.day

\* C14: computing the valuation transactions once more on a valued day (same
\* amounts, same prices) changes neither the values nor the postings and
\* adds no valuation transaction; a second run of the whole valuator leaves
\* the postings and their values as they are.
C14_ReadjustNoOp ==
    /\ val.pc = "readjusted" => val.Values = val.prev.Values /\ val.day = val.prev.day
    /\ val.pc = "revalued" => val.day.Transactions = val.prev.day.Transactions

C14_Witness ==
    /\ val.pc = "readjusted"
    /\ val.n = 2
    /\ val.day.Adjustments # <<>>
    /\ val.day.Transactions # <<>>

RECURSIVE SumResults(_, _, _, _)
\* the sum over the first n results of position k of the map named f
SumResults(rs, f, k, n) ==
    IF n = 0 THEN 0 ELSE SumResults(rs, f, k, n - 1) + Get(rs[n][f], k)

\* C15: for n >= 1 cumulative balances Diffs returns n - 1 balances, result
\* i being balance i + 1 minus balance i for every position of amounts and
\* values (a missing position counting as zero), and the first balance plus
\* the first k results is balance k + 1.
C15_Diffs ==
    dif.pc = "done" =>
        LET b == dif.bals
            r == dif.result
        IN  /\ Len(r) = Len(b) - 1
            /\ \A i \in 1..Len(r) : \A f \in {"Amounts", "Values"} : \A k \in DiffKeys :
                   /\ Get(r[i][f], k) = Get(b[i + 1][f], k) - Get(b[i][f], k)
                   /\ Get(b[1][f], k) + SumResults(r, f, k, i) = Get(b[i + 1][f], k)
            /\ \A i \in 1..Len(r) : \A f \in {"Amounts", "Values"} :
                   DOMAIN r[i][f] \subseteq DiffKeys

C15_Witness ==
    /\ dif.pc = "done"
    /\ Len(dif.result) = 2
    /\ Get(dif.result[1].Amounts, CommodityAccount("Assets:Bank", "USD")) = 1
    /\ Get(dif.result[2].Amounts, CommodityAccount("Assets:Bank", "USD")) = -1
    /\ Get(dif.result[2].Values, CommodityAccount("Assets:Bank", "USD")) = -2
    /\ CommodityAccount("Assets:Bank", "USD") \notin DOMAIN dif.bals[3].Values

\* s comes before t in the dictionary: s is a proper prefix of t, or the
\* first character in which they differ is smaller in s
Before(s, t) ==
    \/ Len(s) < Len(t) /\ \A j \in 1..Len(s) : s[j] = t[j]
    \/ \E i \in 1..Len(s) :
           /\ i =< Len(t)
           /\ s[i] < t[i]
           /\ \A j \in 1..(i - 1) : s[j] = t[j]

\* C16: Less is irreflexive and transitive, of two distinct keys exactly one
\* is less than the other, and the order is the one by account type, then
\* account name, then commodity code.
C16_LessStrictTotal ==
    ord.pc = "done" =>
        /\ ~ord.pp
        /\ ord.pq /\ ord.qr => ord.pr
        /\ ord.p # ord.q => (ord.pq /\ ~ord.qp) \/ (ord.qp /\ ~ord.pq)
        /\ ord.p = ord.q => ~ord.pq /\ ~ord.qp
        /\ ord.pq <=>
               LET tp == TypeRank(TypeOfName(ord.p.Account))
                   tq == TypeRank(TypeOfName(ord.q.Account))
               IN  \/ tp < tq
                   \/ tp = tq /\ Before(ord.p.Account, ord.q.Account)
                   \/ /\ tp = tq
                      /\ ord.p.Account = ord.q.Account
                      /\ Before(ord.p.Commodity, ord.q.Commodity)

C16_Witness ==
    /\ ord.pc = "done"
    /\ ord.pq /\ ord.qr /\ ord.pr
    /\ TypeOfName(ord.p.Account) = "INCOME"
    /\ TypeOfName(ord.q.Account) = "EXPENSES"
    /\ ord.q.Account = <<1>>
    /\ ord.r.Account = <<1, 2>>

\* the list of day record d that holds the directives of kind k
ListOf(d, k) ==
    CASE k = "Open" -> d.Openings
      [] k = "Price" -> d.Prices
      [] k = "Transaction" -> d.Transactions
      [] k = "Assertion" -> d.Assertions
      [] k = "Close" -> d.Closings

\* the places (map key, kind of list, index) at which directive x is stored
Places(x) ==
    {pl \in [key : DOMAIN jrn.Days, kind : Kinds, idx : 1..MaxAdds + 1] :
        /\ pl.idx =< Len(ListOf(jrn.Days[pl.key], pl.kind))
        /\ ListOf(jrn.Days[pl.key], pl.kind)[pl.idx] = x}

\* C17: every directive added is stored at exactly one place, in the list of
\* its kind of the day record stored under its date and dated with it;
\* nothing else is stored; the directives of one list are in the order in
\* which they were added.
C17_DirectivesInDays ==
    jrn.pc # "idle" =>
        /\ \A i \in 1..Len(jrn.added) :
               LET x == jrn.added[i]
               IN  /\ Cardinality(Places(x)) = 1
                   /\ \A pl \in Places(x) :
                          /\ pl.key = x.Date
                          /\ pl.kind = x.kind
                          /\ jrn.Days[pl.key].Date = x.Date
        /\ \A key \in DOMAIN jrn.Days : \A k \in Kinds :
               LET l == ListOf(jrn.Days[key], k)
               IN  /\ \A i \in 1..Len(l) : \E n \in 1..Len(jrn.added) : jrn.added[n] = l[i]
                   /\ \A i, n \in 1..Len(l) : i < n => l[i].id < l[n].id

C17_Witness ==
    /\ Len(jrn.added) = 3
    /\ jrn.added[1].Date = 2
    /\ jrn.added[2].Date = 1
    /\ jrn.added[3].Date = 2
    /\ jrn.added[1].kind = "Close"
    /\ jrn.added[3].kind = "Close"
    /\ jrn.added[2].kind = "Open"

\* C18: Journal.Process and Journal.Sorted return one day record per date
\* that has a directive, in strictly ascending order of Date, whatever the
\* order in which the directives were added.
C18_SortedAscending ==
    jrn.pc \in {"Process", "Sorted"} =>
        /\ \A i, k \in 1..Len(jrn.sorted) : i < k => jrn.sorted[i].Date < jrn.sorted[k].Date
        /\ {jrn.sorted[i].Date : i \in 1..Len(jrn.sorted)} = {x.Date : x \in {jrn.added[n] : n \in 1..Len(jrn.added)}}
        /\ \A i \in 1..Len(jrn.sorted) : jrn.sorted[i] = jrn.Days[jrn.sorted[i].Date]

C18_Witness ==
    /\ jrn.pc = "Sorted"
    /\ Len(jrn.sorted) = 2
    /\ Len(jrn.added) = 3
    /\ jrn.added[1].Date = 2
    /\ jrn.added[2].Date = 1
    /\ jrn.added[3].Date = 2

\* the lookups of a context that returned an object
Returned == {i \in 1..Len(ctx.calls) : ~ctx.calls[i].err}

\* C19: within one context two lookups of accounts with valid names return
\* the same object exactly when the names are equal, likewise two lookups
\* of commodities; a valid name is never an error; every call of an
\* accessor of a reserved account returns the object of its earlier calls;
\* and no call panics.
C19_Interning ==
    ctx.pc # "idle" =>
        /\ ctx.pc # "panic"
        /\ \A i \in 1..Len(ctx.calls) :
               ctx.calls[i].err <=> ctx.calls[i].name \in InvalidNames
        /\ \A i, k \in Returned :
               ctx.calls[i].kind = ctx.calls[k].kind =>
                   (ctx.calls[i].obj = ctx.calls[k].obj <=> ctx.calls[i].name = ctx.calls[k].name)
        /\ \A i, k \in Returned :
               /\ ctx.calls[i].fn = ctx.calls[k].fn
               /\ ctx.calls[i].fn \notin {"GetAccount", "GetCommodity"}
               => ctx.calls[i].obj = ctx.calls[k].obj

C19_Witness ==
    /\ Len(ctx.calls) = 3
    /\ ctx.calls[1].fn = "EquityAccount"
    /\ ctx.calls[2].fn = "GetAccount"
    /\ ctx.calls[2].name = "Assets:Bank"
    /\ ctx.calls[3].fn = "EquityAccount"
    /\ ctx.calls[3].obj = ctx.calls[1].obj
    /\ ctx.calls[2].obj # ctx.calls[1].obj

\* C20: the balance command on a journal without directives ends with a
\* report without segments and commodities and with no error, and it never
\* panics, whatever from, to, period, last and diff are.
C20_EmptyReportNoError ==
    emp.pc # "idle" =>
        /\ emp.pc # "panic"
        /\ emp.pc = "done" =>
               /\ ~emp.err
               /\ emp.report.Segments = {}
               /\ emp.report.Commodities = {}

\* C20, as the code has it: the command panics exactly when --diff is set and
\* the snapshotter has no dates, which is when --from is not given; every
\* other run ends with a report without segments and commodities and no error.
C20_PanicsOnDiffWithoutDates ==
    emp.pc # "idle" =>
        /\ emp.pc = "panic" => emp.diff /\ ~emp.fromSet
        /\ emp.pc \in {"finalized", "done"} => ~emp.diff \/ emp.fromSet
        /\ emp.pc = "done" =>
               /\ ~emp.err
               /\ emp.report.Segments = {}
               /\ emp.report.Commodities = {}

C20_Witness ==
    /\ emp.pc = "panic"
    /\ emp.diff
    /\ ~emp.fromSet
    /\ emp.days = <<>>

\* the rules of c that match account a
Matching(c, a) == {i \in 1..Len(c) : MatchString(c[i].Regex, a)}

\* rules with a regex and a level that is not negative
ProperRules(c) == \A i \in 1..Len(c) : c[i].Regex # NilRegex /\ c[i].Level >= 0

\* the rules of c in every order
Orders(c) ==
    {[i \in 1..Len(c) |-> c[f[i]]] :
        f \in {g \in [1..Len(c) -> 1..Len(c)] : \A i, k \in 1..Len(c) : g[i] = g[k] => i = k}}

\* C21: with rules that have a regex and a level >= 0, shorten returns a
\* prefix of the account's segments whose length is the smallest of the
\* account's length and the levels of the matching rules (all segments when
\* no rule matches), and the rules in any other order give the same result.
C21_ShortenPrefix ==
    sho.pc = "done" /\ ProperRules(sho.rules) =>
        LET lens == {Len(sho.account)} \cup
                    {sho.rules[i].Level : i \in Matching(sho.rules, sho.account)}
        IN  /\ Len(sho.s) =< Len(sho.account)
            /\ sho.s = SubSeq(sho.account, 1, Len(sho.s))
            /\ \A n \in lens : Len(sho.s) =< n
            /\ Len(sho.s) \in lens
            /\ \A o \in Orders(sho.rules) : shorten(o, sho.account).s = sho.s

C21_Witness ==
    /\ sho.pc = "done"
    /\ ProperRules(sho.rules)
    /\ Len(sho.rules) = 2
    /\ Matching(sho.rules, sho.account) = {1, 2}
    /\ sho.rules[1].Level = 1
    /\ sho.rules[2].Level = 2
    /\ Len(sho.account) = 3
    /\ sho.s = <<"Assets">>

\* C27: no list of rules that parseCollapse returns makes shorten fail at
\* run time.
C27_ShortenNeverFails == sho.pc # "panic"

\* C27, as the code has it: shorten fails at run time exactly when a rule
\* has no regex (a flag that is a bare level) or a matching rule has a
\* negative level.
C27_FailsOnBareOrNegativeLevel ==
    sho.pc \in {"done", "panic"} =>
        (sho.pc = "panic" <=>
            \E i \in 1..Len(sho.rules) :
                \/ sho.rules[i].Regex = NilRegex
                \/ (\A k \in 1..i : sho.rules[k].Regex # NilRegex)
                   /\ MatchString(sho.rules[i].Regex, sho.account)
                   /\ sho.rules[i].Level < 0)

C27_Witness ==
    /\ sho.pc = "panic"
    /\ sho.flags = <<(<<"1">>)>>
    /\ sho.rules = <<[Level |-> 1, Regex |-> NilRegex]>>

\* the positions of the balances of seg, and those with an empty key
AllPositions == mergePositionsVec(seg.bal)

Collapsed == {p \in AllPositions : Len(SegmentKey(seg.options, p)) = 0}

\* the total of commodity c over the positions ps, per balance
TotalOf(ps, c) ==
    [i \in 1..Len(seg.bal) |-> SumAt({p \in ps : p.CommodityAccount.Commodity = c}, i)]

\* C22: a position whose account is shortened to no segment is in no
\* segment, and the totals of the report are, per commodity, the sums over
\* all positions of the balances, the collapsed ones included.
C22_CollapsedInTotals ==
    seg.pc = "done" =>
        /\ Collapsed \cap Inserted(seg.report.Segments) = {}
        /\ \A c \in {p.CommodityAccount.Commodity : p \in AllPositions} :
               /\ c \in DOMAIN seg.report.Positions
               /\ seg.report.Positions[c] = TotalOf(AllPositions, c)

\* C22, as the code has it: a position whose account is shortened to no
\* segment is in no segment, and the totals are the sums over the positions
\* that are in a segment, so the collapsed positions are missing from them.
C22_TotalsLackCollapsed ==
    seg.pc = "done" =>
        /\ Inserted(seg.report.Segments) = AllPositions \ Collapsed
        /\ DOMAIN seg.report.Positions =
               {p.CommodityAccount.Commodity : p \in AllPositions \ Collapsed}
        /\ \A c \in DOMAIN seg.report.Positions :
               seg.report.Positions[c] = TotalOf(AllPositions \ Collapsed, c)

C22_Witness ==
    /\ seg.pc = "done"
    /\ Len(seg.bal) = 1
    /\ seg.options = <<[Level |-> 0, Regex |-> "Bank"]>>
    /\ DOMAIN seg.bal[1] = SegKeys
    /\ DOMAIN seg.report.Positions = {"USD"}
    /\ seg.report.Positions["USD"] = <<1>>

\* the accounts the day closes, and the accounts that were closed and not
\* opened again when the day's transactions were booked
DayClosings == {day.Closings[i] : i \in 1..Len(day.Closings)}

ClosedAtBooking ==
    IF "AccountCloser" \in dayStart.done /\ ~Failed(bal)
    THEN dayStart.closed \ DayClosings
    ELSE dayStart.closed

\* C23: an opening of an account that is open fails as already open; a close
\* takes the account out of the open set; and while an account is closed and
\* not opened again, on any later day a transaction that credits or debits it
\* fails as not open.
C23_PostedOnlyWhileOpen ==
    LET ran == dayStart.done IN
    /\ "AccountOpener" \in ran =>
           ((bal.err.directive = "open" /\ bal.err.msg[3] = "is already open") <=>
               \E i \in 1..Len(day.Openings) :
                   day.Openings[i] \in dayStart.Accounts \cup {day.Openings[j] : j \in 1..(i - 1)})
    /\ "AccountCloser" \in ran /\ ~Failed(bal) =>
           /\ DayClosings \cap bal.Accounts = {}
           /\ DayClosings \subseteq dayStart.closed
    /\ dayStart.closed \cap bal.Accounts = {}
    /\ "TransactionBooker" \in ran =>
           ((\E i \in 1..Len(day.Transactions) :
                \E j \in 1..Len(day.Transactions[i].Postings) :
                    \/ day.Transactions[i].Postings[j].Credit \in ClosedAtBooking
                    \/ day.Transactions[i].Postings[j].Debit \in ClosedAtBooking)
            => (PostingNotOpen(bal.err) /\ bal.err.msg[3] = "is not open"))

\* the second day posts to the account that the first day closed
C23_Witness ==
    /\ day.Date = 2
    /\ "TransactionBooker" \in dayStart.done
    /\ "Income:Salary" \in dayStart.closed
    /\ day.Openings = <<>>
    /\ PostingNotOpen(bal.err)
    /\ bal.err.msg[2] = "Income:Salary"

\* C24: the snapshot has the date, amounts, values and open accounts the
\* receiver had when Snapshot was called, and the two are independent
\* afterwards: each of them holds what the operations called on it make of
\* that state, whatever was called on the other.
C24_SnapshotDeepCopy ==
    snp.pc = "snapshot" =>
        /\ Contents(snp.h, snp.b) = snp.want.b
        /\ Contents(snp.h, snp.nb) = snp.want.nb
        /\ snp.ops = 0 => Contents(snp.h, snp.nb) = Contents(snp.h, snp.b)
        /\ snp.want.b = snp.taken => Contents(snp.h, snp.b) = snp.taken
        /\ snp.want.nb = snp.taken => Contents(snp.h, snp.nb) = snp.taken

\* the receiver was booked to and opened an account before the snapshot and
\* was booked to again after it; the snapshot is as it was taken
C24_Witness ==
    /\ snp.pc = "snapshot"
    /\ snp.ops = 3
    /\ snp.taken.Accounts = {"Assets:Bank"}
    /\ \E k \in DOMAIN snp.taken.Amounts : snp.taken.Amounts[k] = 1
    /\ Contents(snp.h, snp.nb) = snp.taken
    /\ Contents(snp.h, snp.b).Amounts # snp.taken.Amounts

\* the index of the first posting of the transaction of bk with an account
\* that is not open (one more than the number of postings when there is none)
FailIndex ==
    LET ps == bk.t.Postings
        bad == {i \in 1..Len(ps) : ~BothOpen(bk.Accounts, ps[i])}
    IN  IF bad = {} THEN Len(ps) + 1 ELSE CHOOSE i \in bad : \A j \in bad : i =< j

\* the positions that postings 1..n of the transaction of bk touch
BkTouched(n) ==
    {k \in {CommodityAccount(a, c) : a \in BkAccounts, c \in Commodities} :
        \E j \in 1..n :
            /\ bk.t.Postings[j].Commodity = k.Commodity
            /\ k.Account \in {bk.t.Postings[j].Credit, bk.t.Postings[j].Debit}}

\* what postings 1..n of the transaction make of the amounts before the call
BookedPrefix(n) ==
    [k \in (DOMAIN bk.before) \cup BkTouched(n) |->
        Get(bk.before, k) + PostingsEffect(bk.t.Postings, k, n)]

\* C25 as stated: after a call that failed at posting k exactly the postings
\* before k are booked, and the amounts differ from those before the call
\* whenever k > 1.
C25_FailedCallChangesAmounts ==
    bk.pc = "returned" /\ bk.err # NoErr =>
        /\ bk.Amounts = BookedPrefix(FailIndex - 1)
        /\ FailIndex > 1 => bk.Amounts # bk.before

\* C25: BookAmount does not roll back: after a call that failed at posting k
\* exactly the postings before k are booked; the amounts differ from those
\* before the call exactly when these postings create a position or change
\* the amount of one, which postings that cancel each other do not.
C25_NoRollback ==
    bk.pc = "returned" =>
        /\ bk.err # NoErr <=> FailIndex =< Len(bk.t.Postings)
        /\ bk.Amounts = BookedPrefix(FailIndex - 1)
        /\ bk.Amounts # bk.before <=>
               \/ ~(BkTouched(FailIndex - 1) \subseteq DOMAIN bk.before)
               \/ \E k \in BkTouched(FailIndex - 1) :
                      PostingsEffect(bk.t.Postings, k, FailIndex - 1) # 0

C25_Witness ==
    /\ bk.pc = "returned"
    /\ bk.err # NoErr
    /\ FailIndex = 3
    /\ bk.before # EmptyMap
    /\ bk.Amounts # bk.before
    /\ bk.Amounts[CommodityAccount("Assets:Bank", "USD")] = 2

\* the dates of the directives added to the journal whose kind is in ks
AddedDates(ks) ==
    {jrn.added[i].Date : i \in {n \in 1..Len(jrn.added) : jrn.added[n].kind \in ks}}

\* C26: Period().Start is the earliest date of a transaction (9999-12-31
\* without one) and Period().End the latest date of a transaction or price
\* (the zero time without one), whatever opens, assertions and closes were
\* added; so Start <= End once a transaction was added.
C26_PeriodBounds ==
    jrn.pc # "idle" =>
        LET ts == AddedDates({"Transaction"})
            tps == AddedDates({"Transaction", "Price"})
            p == Period(jrn)
        IN  /\ ts = {} => p.Start = MaxTime
            /\ ts # {} => p.Start \in ts /\ \A d \in ts : p.Start =< d
            /\ tps = {} => p.End = ZeroTime
            /\ tps # {} => p.End \in tps /\ \A d \in tps : d =< p.End
            /\ ts # {} => p.Start =< p.End

\* an open and a price on the first day, a transaction on the second: the
\* first day has a record but lies before Start
C26_Witness ==
    /\ Len(jrn.added) = 3
    /\ jrn.added[1].kind = "Open"
    /\ jrn.added[1].Date = 1
    /\ jrn.added[2].kind = "Price"
    /\ jrn.added[2].Date = 1
    /\ jrn.added[3].kind = "Transaction"
    /\ jrn.added[3].Date = 2
    /\ Period(jrn) = [Start |-> 2, End |-> 2]
    /\ 1 \in DOMAIN jrn.Days

\* what posting b contributes to key k under the filters of the register:
\* q is the amount or the value of the posting
Contribution(b, k, q) ==
    LET inC == /\ MatchCommodity(register.InFilter, b.Commodity)
               /\ MatchCommodity(register.OutFilter, b.Commodity)
        inCr == MatchAccount(register.InFilter, b.Credit)
        inDr == MatchAccount(register.InFilter, b.Debit)
    IN  IF ~inC \/ (inCr /\ inDr) \/ k.Commodity # b.Commodity THEN 0
        ELSE IF inCr /\ MatchAccount(register.OutFilter, b.Debit) /\ k.Account = b.Debit THEN -q
        ELSE IF inDr /\ MatchAccount(register.OutFilter, b.Credit) /\ k.Account = b.Credit THEN q
        ELSE 0

\* the keys that posting b changes
Changed(b) == {k \in Positions : Contribution(b, k, b.Amount) # 0}

RECURSIVE DayContribution(_, _, _, _)
\* the sum of the contributions to key k of postings 1..n of ps
DayContribution(ps, k, n, ofValue) ==
    IF n = 0 THEN 0
    ELSE DayContribution(ps, k, n - 1, ofValue)
         + Contribution(ps[n], k, IF ofValue THEN ps[n].Value ELSE ps[n].Amount)

\* C28: the register holds one section per call of Add, in call order and
\* with the date of the day; every posting changes at most one key; and the
\* section's amounts and values are, per key, the sums of the contributions
\* of the day's postings, its keys being the keys that a posting changes.
C28_OneSectionPerAdd ==
    register.pc # "idle" =>
        /\ Len(register.sections) = Len(register.added)
        /\ \A i \in 1..Len(register.added) :
               LET s == register.sections[i]
                   ps == register.added[i].Transactions[1]
               IN  /\ s.date = register.added[i].Date
                   /\ \A n \in 1..Len(ps) : Cardinality(Changed(ps[n])) =< 1
                   /\ DOMAIN s.amounts = UNION {Changed(ps[n]) : n \in 1..Len(ps)}
                   /\ DOMAIN s.values = DOMAIN s.amounts
                   /\ \A k \in DOMAIN s.amounts :
                          /\ s.amounts[k] = DayContribution(ps, k, Len(ps), FALSE)
                          /\ s.values[k] = DayContribution(ps, k, Len(ps), TRUE)

\* two days: the first posts out of the filtered account, the second into it
C28_Witness ==
    /\ Len(register.sections) = 2
    /\ register.InFilter.AccountsFilter = Regexp({"Assets:Bank"})
    /\ register.OutFilter.AccountsFilter = NoRegexp
    /\ register.sections[1].amounts = [k \in {CommodityAccount("Income:Salary", "USD")} |-> -1]
    /\ register.sections[2].amounts = [k \in {CommodityAccount("Income:Salary", "USD")} |-> 1]
    /\ register.sections[2].values = [k \in {CommodityAccount("Income:Salary", "USD")} |-> 2]

RECURSIVE Flatten(_)
\* the directives of a stream of batches, in order
Flatten(s) == IF s = <<>> THEN <<>> ELSE Head(s) \o Flatten(Tail(s))

\* what holds when FromPath has returned
FromPathResult ==
    fp.pc = "returned" =>
        /\ \A worker \in 1..3 : fp.w[worker] # "run"
        /\ IF fp.errs = <<>>
           THEN /\ fp.result.err = "nil"
                /\ fp.result.journal = <<Flatten(fp.stream)>>
                /\ \A i \in 1..Len(Flatten(fp.stream)) : Flatten(fp.stream)[i] \in KnownTypes
           ELSE /\ fp.result.journal = <<>>
                /\ fp.result.err = fp.errs[1]

\* the journal is read only after every worker returned, and it is there
HandOver ==
    fp.pc = "receive" =>
        /\ \A worker \in 1..3 : fp.w[worker] # "run"
        /\ Len(fp.journalCh.queue) = 1

AllClosed == pc # "idle" /\ \A c \in Chans : chans[c].closed

\* C30: if no stage delivers an error and the three channels are eventually
\* closed, the select loop ends and the report is rendered; when it is, the
\* report holds the balances sent on ch4, each once and in the order sent;
\* and once rendering has started the report no longer changes.
C30_LoopTerminates ==
    /\ [](pc = "rendered" => rep = sent /\ retErr = None)
    /\ [][pc = "rendered" => rep' = rep]_vars
    /\ ([](raised = <<>>) /\ <>[]AllClosed) => <>(pc = "rendered")

\* the report was rendered after two balances were sent and no error raised
C30_Witness ==
    /\ pc = "rendered"
    /\ raised = <<>>
    /\ sent = <<1, 2>>
    /\ rep = <<1, 2>>

====
